---- MODULE Spec2Model ----
(***************************************************************************)
(* A model of the iExplain explanation pipeline:                           *)
(*   - the three agent workflows (workflows/*.py),                         *)
(*   - the extraction of the explanation record from an agent result       *)
(*     (explainer.py, utils.py),                                           *)
(*   - the heuristic log analyzer (mains.py, class MinimalExplainer),      *)
(*   - the reader of log files (log_processing/log_reader.py),             *)
(*   - two requests served by one process (explainer.py),                  *)
(*   - the intent extraction (tools/parse_tmf_intent.py, analyze_intent),  *)
(*   - repeated calls of analyze_logs on one log set.                      *)
(* Each component has its own specification; the variables of the other    *)
(* components stay at their idle values.                                   *)
(***************************************************************************)
EXTENDS Integers, Sequences, FiniteSets, TLC

VARIABLES
    \* ---- workflows/*.py : one call of <Workflow>.execute ----
    workflow,          \* the class whose execute runs
    agents,            \* keys of the agents dictionary handed to execute
    intent_data,       \* [structured_intent, nl_intent]
    log_files,         \* sequence of log file paths
    wf_pc,             \* position inside execute
    wf_error,          \* exception that left execute ("" when none)
    invocations,       \* chats started so far: <<[recipient, message, max_turns]>>
    nested_chats,      \* nested chats registered on the coordinator
    chat_messages,     \* every message exchanged so far, in order
    intent_summary,    \* sequential: summary of stage 1
    log_summary,       \* sequential: summary of stage 2
    chat_queue,        \* nested: chats of the queue not started yet
    chat_results,      \* ChatResult of every finished chat, in order
    max_rounds,        \* cfg.WORKFLOW_CONFIG["groupchat"]["max_rounds"]
    wf_return          \* value returned by execute: [result, conversation_log]

VARIABLES
    \* ---- explainer.py : the tail of iExplain.explain ----
    result_history,    \* result.chat_history: <<[role, name, content]>>
    intent_id,         \* metadata['id'] of the intent file
    intent_description,\* metadata['description'] of the intent file
    norm_pc,           \* position inside explain
    norm_error,        \* exception that left explain ("" when none)
    explanation,       \* the explanation dictionary
    output_file        \* what _save_explanation_to_file wrote

norm_vars == <<result_history, intent_id, intent_description, norm_pc, norm_error,
               explanation, output_file>>

VARIABLES
    \* ---- mains.py : MinimalExplainer.analyze_logs / determine_outcome ----
    intent_info,       \* [threshold, threshold_unit] from analyze_intent
    scan,              \* the log lines this run may meet: [lines, budget]
    an_pc,             \* position inside explain
    files_left,        \* entries of log_files not visited yet
    files_read,        \* history: log files that existed and were read
    lines_read,        \* lines read so far, over all files
    log_results,       \* the running aggregates
    evidence,          \* history: how often each value was extracted, per metric
    outcome            \* result of determine_outcome

an_vars == <<intent_info, scan, an_pc, files_left, files_read, lines_read, log_results,
             evidence, outcome>>

VARIABLES
    \* ---- log_processing/log_reader.py : one call of read_logs_for_analysis ----
    rd_log_files,      \* the argument log_files: <<[path, kind, lines]>>
    rd_max_lines,      \* the argument max_lines_per_file
    rd_pc,             \* position inside read_logs_for_analysis
    rd_index,          \* position of "for log_file in log_files"
    rd_content,        \* result_lines
    rd_metadata,       \* metadata
    rd_warnings,       \* warnings
    rd_result,         \* the dictionary returned
    rd_summary         \* what get_log_summary makes of it

rd_vars == <<rd_log_files, rd_max_lines, rd_pc, rd_index, rd_content, rd_metadata,
             rd_warnings, rd_result, rd_summary>>

VARIABLES
    \* ---- one process serving two explanation requests with the same agents ----
    req_pc,            \* position of each request
    req_log_files,     \* log_files of each request
    coordinator_chats, \* nested chats registered on agents["coordinator_agent"]
    seen_chats,        \* history: the registered chats each request ran with
    clock,             \* datetime.now(), in seconds
    output_dir,        \* config.OUTPUT_PATH: which request's record each file holds
    saved_as           \* the file each request wrote

sess_vars == <<req_pc, req_log_files, coordinator_chats, seen_chats, clock, output_dir,
               saved_as>>

VARIABLES
    \* ---- config.py : cfg.WORKFLOW_CONFIG["sequential"] ----
    sequential_config  \* [intent_parsing_turns, log_analysis_turns, explanation_turns]

cfg_vars == <<sequential_config>>

VARIABLES
    \* ---- tools/parse_tmf_intent.py, mains.py : MinimalExplainer.analyze_intent ----
    turtle_string,     \* the intent document: a sequence of lines
    ix_pc,             \* position inside parse_tmf_intent / analyze_intent
    line_no,           \* lines of the document scanned so far
    current_subject,   \* the cursor of the scan
    subject_types,     \* subject -> declared type
    parsed_intent,     \* the dictionary parse_tmf_intent builds and returns
    requirement        \* the intent_info analyze_intent returns

ix_vars == <<turtle_string, ix_pc, line_no, current_subject, subject_types, parsed_intent,
             requirement>>

VARIABLES
    \* ---- mains.py : calls of analyze_logs, one after the other, on one log set ----
    logs_dir,          \* the files of log_files under self.logs_dir: <<[exists, lines]>>
    rerun_info,        \* the argument intent_info
    rerun_pc,          \* position inside analyze_logs ("Idle" between calls)
    rerun_file,        \* position of "for log_file in log_files"
    rerun_line,        \* position of "for line in log_lines"
    rerun_results,     \* log_results of the running call
    returned           \* the dictionaries returned so far, in call order

rerun_vars == <<logs_dir, rerun_info, rerun_pc, rerun_file, rerun_line, rerun_results,
                returned>>

wf_vars == <<workflow, agents, intent_data, log_files, wf_pc, wf_error,
             invocations, nested_chats, chat_messages, intent_summary,
             log_summary, chat_queue, chat_results, max_rounds, wf_return>>

None == "None"

\* ------------------------------------------------------------------------
\* Bounds of the model
\* ------------------------------------------------------------------------
MaxLogFiles == 2
\* largest round cap the groupchat configuration is given in the model
MaxRoundsCfg == 3
\* longest chat history handed to the extraction
MaxMsgs == 2
\* most log files of one analysis, most lines over all files (any kind of line)
MaxFiles == 2
MaxLines == 4
\* most lines of a log that holds API lines only
MaxApiLines == 10
\* read_logs_for_analysis: most files of a call, most lines of a file, largest
\* max_lines_per_file
MaxReaderFiles == 2
MaxReaderLines == 3
MaxLinesPerFile == 2
\* seconds the clock advances while two requests are served
MaxClock == 2
\* intent documents: most lines of a document of arbitrary lines, most blocks of a
\* document written block by block
MaxTtlLines == 3
MaxTtlBlocks == 2
\* analyze_logs called again: most log files of the log set, most calls
MaxStoredLogs == 2
MaxCalls == 2

\* ------------------------------------------------------------------------
\* workflows/base_workflow.py, sequential/nested/groupchat_workflow.py
\* ------------------------------------------------------------------------
Workflows == {"SequentialWorkflow", "NestedWorkflow", "GroupchatWorkflow"}

AgentNames == {"coordinator_agent", "intent_parser_agent",
               "log_analysis_agent", "explanation_generator_agent"}

\* Texts an agent (the external reasoning capability) may answer with.
Replies == {[kind |-> "reply", text |-> "a"], [kind |-> "reply", text |-> "b"]}

\* No text yet / the empty automatic reply of an agent without LLM.
NoText == [kind |-> "none"]
AutoReply == [kind |-> "auto_reply"]

\* get_required_agents with the log-analysis agent forgotten by Sequential.
get_required_agents_mut(w) ==
    IF w = "GroupchatWorkflow"
    THEN {"intent_parser_agent", "log_analysis_agent", "explanation_generator_agent"}
    ELSE IF w = "SequentialWorkflow"
    THEN {"coordinator_agent", "intent_parser_agent", "explanation_generator_agent"}
    ELSE AgentNames

get_required_agents(w) ==
    IF w = "GroupchatWorkflow"
    THEN {"intent_parser_agent", "log_analysis_agent", "explanation_generator_agent"}
    ELSE {"coordinator_agent", "intent_parser_agent",
          "log_analysis_agent", "explanation_generator_agent"}

\* validate_agents: the required names missing from the dictionary.
missing_agents(w, ags) == get_required_agents(w) \ ags

\* ', '.join(log_files)
RECURSIVE Join(_)
Join(files) ==
    IF Len(files) <= 1 THEN files
    ELSE <<Head(files), ", ">> \o Join(Tail(files))

\* f-string prompts: a record of the values interpolated into the text.
build_intent_prompt(idata) ==
    [kind |-> "intent_prompt",
     structured_intent |-> idata.structured_intent,
     nl_section |-> IF idata.nl_intent # "" THEN idata.nl_intent ELSE ""]

build_log_analysis_prompt(isummary, files) ==
    [kind |-> "log_analysis_prompt", intent_summary |-> isummary,
     log_files |-> Join(files)]

\* _build_explanation_prompt with the intent summary in both places.
build_explanation_prompt_mut(isummary, lsummary) ==
    [kind |-> "explanation_prompt", intent_summary |-> isummary,
     log_summary |-> isummary, field_list |-> "expected_fields"]

build_explanation_prompt(isummary, lsummary) ==
    [kind |-> "explanation_prompt", intent_summary |-> isummary,
     log_summary |-> lsummary, field_list |-> "expected_fields"]

build_log_analysis_message(files) ==
    [kind |-> "nested_log_analysis_message", log_files |-> Join(files)]

build_nested_explanation_prompt ==
    [kind |-> "nested_explanation_prompt", field_list |-> "expected_fields"]

build_initial_prompt(idata, files) ==
    [kind |-> "groupchat_prompt",
     structured_intent |-> idata.structured_intent,
     nl_section |-> IF idata.nl_intent # "" THEN idata.nl_intent ELSE "",
     log_files |-> Join(files), field_list |-> "expected_fields"]

Msg(n, c) == [name |-> n, content |-> c]

\* The log file lists handed to execute: prefixes of a fixed list of paths.
AllLogPaths == <<"nova-api.log", "nova-compute.log", "nova-scheduler.log", "nova-conductor.log">>
LogFileLists == {SubSeq(AllLogPaths, 1, n) : n \in 0..MaxLogFiles}

\* What execute hands back: result is a ChatResult (type "ChatResult") or a list
\* of ChatResult (type "list").
NoReturn == [returned |-> FALSE, result |-> [type |-> "None", value |-> <<>>],
             conversation_log |-> <<>>]

\* cfg.WORKFLOW_CONFIG["sequential"]: the values of config.py and two edited ones.
DefaultSequentialConfig ==
    [intent_parsing_turns |-> 1, log_analysis_turns |-> 2, explanation_turns |-> 1]
SequentialConfigs ==
    { DefaultSequentialConfig,
      [intent_parsing_turns |-> 1, log_analysis_turns |-> 1, explanation_turns |-> 1],
      [intent_parsing_turns |-> 2, log_analysis_turns |-> 3, explanation_turns |-> 2] }

WfIdle ==
    /\ workflow = None /\ agents = {} /\ intent_data = None /\ log_files = <<>>
    /\ wf_pc = "Idle" /\ wf_error = "" /\ invocations = <<>> /\ nested_chats = {}
    /\ chat_messages = <<>> /\ intent_summary = NoText /\ log_summary = NoText
    /\ chat_queue = <<>> /\ chat_results = <<>>
    /\ max_rounds = 0 /\ wf_return = NoReturn
    /\ sequential_config = None

WfInit ==
    /\ workflow \in Workflows
    /\ agents \in SUBSET AgentNames
    /\ intent_data \in [structured_intent : {"ttl"}, nl_intent : {"", "nl"}]
    /\ log_files \in LogFileLists
    /\ max_rounds \in 1..MaxRoundsCfg
    /\ sequential_config \in SequentialConfigs
    /\ wf_pc = "NotStarted" /\ wf_error = "" /\ invocations = <<>>
    /\ nested_chats = {} /\ chat_messages = <<>>
    /\ intent_summary = NoText /\ log_summary = NoText
    /\ chat_queue = <<>> /\ chat_results = <<>> /\ wf_return = NoReturn

\* An exception leaves execute: nothing is returned to the caller.
Raise(exc) ==
    /\ wf_pc' = "Failed" /\ wf_error' = exc
    /\ UNCHANGED <<workflow, agents, intent_data, log_files, invocations, nested_chats,
                   chat_messages, intent_summary, log_summary, chat_queue, chat_results,
                   max_rounds, wf_return>>

\* self.validate_agents(agents), the first statement of every execute.
ValidateAgents ==
    /\ UNCHANGED <<cfg_vars, norm_vars, an_vars, rd_vars, sess_vars, ix_vars, rerun_vars>>
    /\ wf_pc = "NotStarted"
    /\ IF missing_agents(workflow, agents) # {}
       THEN Raise("ValueError")
       ELSE /\ wf_pc' = "Validated"
            /\ UNCHANGED <<workflow, agents, intent_data, log_files, wf_error, invocations,
                           nested_chats, chat_messages, intent_summary, log_summary,
                           chat_queue, chat_results, max_rounds, wf_return>>

\* A chat with a recipient is entered: the recipient (and the coordinator that
\* starts it) have been looked up in the dictionary, the message is built.
StartChat(to, recipient, message, turns) ==
    IF ~({"coordinator_agent", recipient} \subseteq agents)
    THEN Raise("KeyError")
    ELSE /\ wf_pc' = to
         /\ invocations' = Append(invocations,
                [recipient |-> recipient, message |-> message, max_turns |-> turns,
                 carryover |-> <<>>])
         /\ UNCHANGED <<workflow, agents, intent_data, log_files, wf_error, nested_chats,
                        chat_messages, intent_summary, log_summary, chat_queue,
                        chat_results, max_rounds, wf_return>>

\* The first message of a chat: the message of the chat entry, followed by the
\* summaries carried over from the chats of the same queue that have finished.
init_message(inv) ==
    IF inv.carryover = <<>> THEN inv.message
    ELSE [kind |-> "message_with_context", message |-> inv.message,
          context |-> inv.carryover]

\* The messages of one finished chat that used t turns: in turn 1 the coordinator
\* sends the message, in a later turn its automatic reply; the recipient answers
\* each.
RECURSIVE ChatHistory(_, _, _)
ChatHistory(inv, t, answers) ==
    IF t = 0 THEN <<>>
    ELSE ChatHistory(inv, t - 1, answers)
         \o << Msg("coordinator", IF t = 1 THEN init_message(inv) ELSE AutoReply),
                Msg(inv.recipient, answers[t]) >>

LastInvocation == invocations[Len(invocations)]

\* _extract_summary: a ChatResult has the attribute summary.
extract_summary(result) == result.summary

\* The running chat returns its ChatResult after t <= max_turns turns; its summary
\* is the last message (summary_method last_msg) or a text written by the LLM
\* (reflection_with_llm); _extract_summary keeps it in the local variable `keep`.
\* The call may instead raise (the capability fails).
FinishChat(from, to, reflection, keep) ==
    /\ wf_pc = from
    /\ \/ Raise("capability_error")
       \/ \E t \in 1..LastInvocation.max_turns :
          \E answers \in [1..t -> Replies] :
          \E summary \in IF reflection THEN Replies ELSE {answers[t]} :
            LET hist == ChatHistory(LastInvocation, t, answers) IN
            /\ wf_pc' = to
            /\ chat_messages' = chat_messages \o hist
            /\ chat_results' = Append(chat_results,
                                      [chat_history |-> hist, summary |-> summary])
            /\ intent_summary' = IF keep = "intent_summary"
                                  THEN extract_summary([chat_history |-> hist,
                                                        summary |-> summary])
                                  ELSE intent_summary
            /\ log_summary' = IF keep = "log_summary"
                               THEN extract_summary([chat_history |-> hist,
                                                     summary |-> summary])
                               ELSE log_summary
            /\ UNCHANGED <<workflow, agents, intent_data, log_files, wf_error, invocations,
                           nested_chats, chat_queue, max_rounds, wf_return>>

LastResult == chat_results[Len(chat_results)]

Return(result, log) ==
    /\ wf_pc' = "Completed"
    /\ wf_return' = [returned |-> TRUE, result |-> result, conversation_log |-> log]
    /\ UNCHANGED <<workflow, agents, intent_data, log_files, wf_error, invocations,
                   nested_chats, chat_messages, intent_summary, log_summary, chat_queue,
                   chat_results, max_rounds>>

\* ---- SequentialWorkflow.execute ----
SeqStartIntent ==
    /\ UNCHANGED <<cfg_vars, norm_vars, an_vars, rd_vars, sess_vars, ix_vars, rerun_vars>>
    /\ workflow = "SequentialWorkflow" /\ wf_pc = "Validated"
    /\ StartChat("SeqStage1", "intent_parser_agent", build_intent_prompt(intent_data), 1)

SeqFinishIntent ==
    /\ UNCHANGED <<cfg_vars, norm_vars, an_vars, rd_vars, sess_vars, ix_vars, rerun_vars>>
    /\ workflow = "SequentialWorkflow"
    /\ FinishChat("SeqStage1", "SeqStage1Done", FALSE, "intent_summary")

SeqStartLogAnalysis ==
    /\ UNCHANGED <<cfg_vars, norm_vars, an_vars, rd_vars, sess_vars, ix_vars, rerun_vars>>
    /\ workflow = "SequentialWorkflow" /\ wf_pc = "SeqStage1Done"
    /\ StartChat("SeqStage2", "log_analysis_agent",
                 build_log_analysis_prompt(intent_summary, log_files), 2)

SeqFinishLogAnalysis ==
    /\ UNCHANGED <<cfg_vars, norm_vars, an_vars, rd_vars, sess_vars, ix_vars, rerun_vars>>
    /\ workflow = "SequentialWorkflow"
    /\ FinishChat("SeqStage2", "SeqStage2Done", TRUE, "log_summary")

SeqStartExplanation ==
    /\ UNCHANGED <<cfg_vars, norm_vars, an_vars, rd_vars, sess_vars, ix_vars, rerun_vars>>
    /\ workflow = "SequentialWorkflow" /\ wf_pc = "SeqStage2Done"
    /\ StartChat("SeqStage3", "explanation_generator_agent",
                 build_explanation_prompt(intent_summary, log_summary), 1)

SeqFinishExplanation ==
    /\ UNCHANGED <<cfg_vars, norm_vars, an_vars, rd_vars, sess_vars, ix_vars, rerun_vars>>
    /\ workflow = "SequentialWorkflow"
    /\ FinishChat("SeqStage3", "SeqStage3Done", FALSE, "none")

\* full_conversation: the three chat histories, in stage order.
SeqReturn ==
    /\ UNCHANGED <<cfg_vars, norm_vars, an_vars, rd_vars, sess_vars, ix_vars, rerun_vars>>
    /\ workflow = "SequentialWorkflow" /\ wf_pc = "SeqStage3Done"
    /\ Return([type |-> "ChatResult", value |-> LastResult],
              chat_results[1].chat_history \o chat_results[2].chat_history
              \o chat_results[3].chat_history)

\* ---- NestedWorkflow.execute ----
\* coordinator.register_nested_chats(nested_log_analysis, trigger=intent_parser_agent)
NestedRegister ==
    /\ UNCHANGED <<cfg_vars, norm_vars, an_vars, rd_vars, sess_vars, ix_vars, rerun_vars>>
    /\ workflow = "NestedWorkflow" /\ wf_pc = "Validated"
    /\ IF ~({"coordinator_agent", "log_analysis_agent", "intent_parser_agent"} \subseteq agents)
       THEN Raise("KeyError")
       ELSE /\ wf_pc' = "NestedRegistered"
            /\ nested_chats' = nested_chats \cup
                   {[trigger |-> "intent_parser_agent", recipient |-> "log_analysis_agent",
                     message |-> build_log_analysis_message(log_files), max_turns |-> 2]}
            /\ UNCHANGED <<workflow, agents, intent_data, log_files, wf_error, invocations,
                           chat_messages, intent_summary, log_summary, chat_queue,
                           chat_results, max_rounds, wf_return>>

\* initiate_chats with the two entries of the queue in the wrong order.
NestedInitiateChats_mut ==
    /\ UNCHANGED <<cfg_vars, norm_vars, an_vars, rd_vars, sess_vars, ix_vars, rerun_vars>>
    /\ workflow = "NestedWorkflow" /\ wf_pc = "NestedRegistered"
    /\ IF ~({"intent_parser_agent", "explanation_generator_agent"} \subseteq agents)
       THEN Raise("KeyError")
       ELSE /\ wf_pc' = "NestedChat1"
            /\ invocations' = Append(invocations,
                   [recipient |-> "explanation_generator_agent",
                    message |-> build_nested_explanation_prompt, max_turns |-> 1,
                    carryover |-> <<>>])
            /\ chat_queue' = << [recipient |-> "intent_parser_agent",
                                  message |-> build_intent_prompt(intent_data),
                                  max_turns |-> 1] >>
            /\ UNCHANGED <<workflow, agents, intent_data, log_files, wf_error, nested_chats,
                           chat_messages, intent_summary, log_summary, chat_results,
                           max_rounds, wf_return>>

\* coordinator.initiate_chats([intent chat, explanation chat]): both entries of the
\* queue are built, then the first chat starts.
NestedInitiateChats ==
    /\ UNCHANGED <<cfg_vars, norm_vars, an_vars, rd_vars, sess_vars, ix_vars, rerun_vars>>
    /\ workflow = "NestedWorkflow" /\ wf_pc = "NestedRegistered"
    /\ IF ~({"intent_parser_agent", "explanation_generator_agent"} \subseteq agents)
       THEN Raise("KeyError")
       ELSE /\ wf_pc' = "NestedChat1"
            /\ invocations' = Append(invocations,
                   [recipient |-> "intent_parser_agent",
                    message |-> build_intent_prompt(intent_data), max_turns |-> 1,
                    carryover |-> <<>>])
            /\ chat_queue' = << [recipient |-> "explanation_generator_agent",
                                  message |-> build_nested_explanation_prompt,
                                  max_turns |-> 1] >>
            /\ UNCHANGED <<workflow, agents, intent_data, log_files, wf_error, nested_chats,
                           chat_messages, intent_summary, log_summary, chat_results,
                           max_rounds, wf_return>>

NestedFinishIntent ==
    /\ UNCHANGED <<cfg_vars, norm_vars, an_vars, rd_vars, sess_vars, ix_vars, rerun_vars>>
    /\ workflow = "NestedWorkflow"
    /\ FinishChat("NestedChat1", "NestedChat1Done", FALSE, "none")

\* The nested chat registered for the trigger runs inside the library, when the
\* coordinator answers a message of the trigger agent.
NestedTrigger ==
    /\ UNCHANGED <<cfg_vars, norm_vars, an_vars, rd_vars, sess_vars, ix_vars, rerun_vars>>
    /\ workflow = "NestedWorkflow" /\ wf_pc = "NestedChat1Done"
    /\ \E nc \in nested_chats :
         /\ nc.trigger = LastInvocation.recipient
         /\ wf_pc' = "NestedSub"
         /\ invocations' = Append(invocations,
                [recipient |-> nc.recipient, message |-> nc.message,
                 max_turns |-> nc.max_turns, carryover |-> <<>>])
    /\ UNCHANGED <<workflow, agents, intent_data, log_files, wf_error, nested_chats,
                   chat_messages, intent_summary, log_summary, chat_queue, chat_results,
                   max_rounds, wf_return>>

NestedFinishSub ==
    /\ UNCHANGED <<cfg_vars, norm_vars, an_vars, rd_vars, sess_vars, ix_vars, rerun_vars>>
    /\ workflow = "NestedWorkflow"
    /\ FinishChat("NestedSub", "NestedSubDone", TRUE, "none")

\* The next chat of the queue starts; the library carries the summaries of the
\* finished chats of the queue (here the intent chat) over into its first message.
NestedNextChat ==
    /\ UNCHANGED <<cfg_vars, norm_vars, an_vars, rd_vars, sess_vars, ix_vars, rerun_vars>>
    /\ workflow = "NestedWorkflow" /\ wf_pc \in {"NestedChat1Done", "NestedSubDone"}
    /\ chat_queue # <<>>
    /\ wf_pc' = "NestedChat2"
    /\ invocations' = Append(invocations,
           [recipient |-> Head(chat_queue).recipient, message |-> Head(chat_queue).message,
            max_turns |-> Head(chat_queue).max_turns,
            carryover |-> <<chat_results[1].summary>>])
    /\ chat_queue' = Tail(chat_queue)
    /\ UNCHANGED <<workflow, agents, intent_data, log_files, wf_error, nested_chats,
                   chat_messages, intent_summary, log_summary, chat_results,
                   max_rounds, wf_return>>

NestedFinishExplanation ==
    /\ UNCHANGED <<cfg_vars, norm_vars, an_vars, rd_vars, sess_vars, ix_vars, rerun_vars>>
    /\ workflow = "NestedWorkflow"
    /\ FinishChat("NestedChat2", "NestedChat2Done", FALSE, "none")

\* initiate_chats returns the list of the ChatResult of the two chats of the queue;
\* a list has no chat_history attribute, so conversation_log is [].
NestedReturn ==
    /\ UNCHANGED <<cfg_vars, norm_vars, an_vars, rd_vars, sess_vars, ix_vars, rerun_vars>>
    /\ workflow = "NestedWorkflow" /\ wf_pc = "NestedChat2Done"
    /\ Return([type |-> "list", value |-> <<chat_results[1], LastResult>>], <<>>)

\* ---- GroupchatWorkflow.execute ----
GroupchatSpeakers == {"user_proxy", "intent_parser_agent", "log_analysis_agent",
                      "explanation_generator_agent"}

\* GroupChat(agents=[...], max_round=max_rounds), then
\* user_proxy.initiate_chat(manager, message=prompt): the prompt is message 1.
GroupchatStart ==
    /\ UNCHANGED <<cfg_vars, norm_vars, an_vars, rd_vars, sess_vars, ix_vars, rerun_vars>>
    /\ workflow = "GroupchatWorkflow" /\ wf_pc = "Validated"
    /\ IF ~({"intent_parser_agent", "log_analysis_agent",
              "explanation_generator_agent"} \subseteq agents)
       THEN Raise("KeyError")
       ELSE /\ wf_pc' = "GroupchatRunning"
            /\ invocations' = Append(invocations,
                   [recipient |-> "chat_manager",
                    message |-> build_initial_prompt(intent_data, log_files),
                    max_turns |-> max_rounds, carryover |-> <<>>])
            /\ chat_messages' = Append(chat_messages,
                   Msg("user_proxy", build_initial_prompt(intent_data, log_files)))
            /\ UNCHANGED <<workflow, agents, intent_data, log_files, wf_error, nested_chats,
                           intent_summary, log_summary, chat_queue, chat_results,
                           max_rounds, wf_return>>

\* One round, with the test of the round cap off by one.
GroupchatRound_mut ==
    /\ UNCHANGED <<cfg_vars, norm_vars, an_vars, rd_vars, sess_vars, ix_vars, rerun_vars>>
    /\ workflow = "GroupchatWorkflow" /\ wf_pc = "GroupchatRunning"
    /\ Len(chat_messages) <= LastInvocation.max_turns
    /\ \E speaker \in GroupchatSpeakers, answer \in Replies :
         chat_messages' = Append(chat_messages, Msg(speaker, answer))
    /\ UNCHANGED <<workflow, agents, intent_data, log_files, wf_pc, wf_error, invocations,
                   nested_chats, intent_summary, log_summary, chat_queue, chat_results,
                   max_rounds, wf_return>>

\* One round: the manager selects a speaker, who answers.
GroupchatRound ==
    /\ UNCHANGED <<cfg_vars, norm_vars, an_vars, rd_vars, sess_vars, ix_vars, rerun_vars>>
    /\ workflow = "GroupchatWorkflow" /\ wf_pc = "GroupchatRunning"
    /\ Len(chat_messages) < LastInvocation.max_turns
    /\ \E speaker \in GroupchatSpeakers, answer \in Replies :
         chat_messages' = Append(chat_messages, Msg(speaker, answer))
    /\ UNCHANGED <<workflow, agents, intent_data, log_files, wf_pc, wf_error, invocations,
                   nested_chats, intent_summary, log_summary, chat_queue, chat_results,
                   max_rounds, wf_return>>

\* initiate_chat returns (round cap reached, or the chat ended before), or the
\* selection of the next speaker or its answer raises (only while a round is left).
GroupchatFinish ==
    /\ UNCHANGED <<cfg_vars, norm_vars, an_vars, rd_vars, sess_vars, ix_vars, rerun_vars>>
    /\ workflow = "GroupchatWorkflow" /\ wf_pc = "GroupchatRunning"
    /\ \/ Len(chat_messages) < LastInvocation.max_turns /\ Raise("capability_error")
       \/ LET res == [chat_history |-> chat_messages,
                      summary |-> chat_messages[Len(chat_messages)].content]
          IN Return([type |-> "ChatResult", value |-> res], res.chat_history)

WorkflowSteps ==
    \/ ValidateAgents
    \/ SeqStartIntent \/ SeqFinishIntent \/ SeqStartLogAnalysis \/ SeqFinishLogAnalysis
    \/ SeqStartExplanation \/ SeqFinishExplanation \/ SeqReturn
    \/ NestedRegister \/ NestedInitiateChats \/ NestedFinishIntent \/ NestedTrigger
    \/ NestedFinishSub \/ NestedNextChat \/ NestedFinishExplanation \/ NestedReturn
    \/ GroupchatStart \/ GroupchatRound \/ GroupchatFinish

\* ------------------------------------------------------------------------
\* explainer.py, utils.py, config.py : extraction of the explanation record
\* ------------------------------------------------------------------------
\* JSON values
Str(x) == [t |-> "str", s |-> x]
Lst(x) == [t |-> "list", l |-> x]
Dct(x) == [t |-> "dict", f |-> x]
Invalid == [t |-> "invalid"]

\* Config.EXPLANATION_CONFIG: the configured field schema.
EXPLANATION_CONFIG ==
    {"timestamp", "intent", "outcome", "outcome_explanation", "system_interpretation",
     "key_actions", "analysis", "recommendations", "influencing_factors"}

\* d[k] = v on a dictionary
SetItem(d, k, v) == (k :> v) @@ d

\* The objects an agent may write into a fenced json block.
AgentObjectFull ==
    [outcome |-> Str("Success"), outcome_explanation |-> Str("all calls were fast"),
     system_interpretation |-> Str("keep latency low"), key_actions |-> Lst(<<"scaled">>),
     analysis |-> Dct([total_logs_analyzed |-> 10]),
     recommendations |-> Lst(<<[action |-> "monitor", reason |-> "peak hours"]>>),
     influencing_factors |-> Lst(<<"load">>),
     intent |-> Dct([id |-> Str("agent_id"), description |-> Str("agent_description")])]

AgentObjectPartial == [outcome |-> Str("Failure")]

AgentObjectIntentStr == [outcome |-> Str("Success"), intent |-> Str("keep latency low")]

\* A fenced block: the text between ```json and ```, given by whether its backslash
\* escapes are well formed and by the JSON text it holds.  The text searched is
\* str(result), the repr of a ChatResult, in which every backslash starts a well
\* formed escape: no block of a result has malformed escapes.  The list stands for
\* every JSON value that is not an object; bad_json also for the empty block.
Blocks ==
    [ full       |-> [escapes |-> "ok", json |-> Dct(AgentObjectFull)],
      partial    |-> [escapes |-> "ok", json |-> Dct(AgentObjectPartial)],
      intent_str |-> [escapes |-> "ok", json |-> Dct(AgentObjectIntentStr)],
      list       |-> [escapes |-> "ok", json |-> Lst(<<"Success">>)],
      bad_json   |-> [escapes |-> "ok", json |-> Invalid] ]

Fence(b) == [kind |-> "fence", block |-> Blocks[b]]
Label(l, v) == [kind |-> "label", label |-> l, value |-> v]
BulletPair(a, r) == [kind |-> "bullet_pair", action |-> a, reason |-> r]
FactorSection(bs) == [kind |-> "factor_section", bullets |-> bs]
Text == [kind |-> "text"]

\* The message texts of the model: each a sequence of the parts the regular
\* expressions of the extraction tell apart, in text order.
Contents ==
    { <<Text>>,
      <<Fence("full")>>,
      <<Fence("partial")>>,
      <<Fence("partial"), Fence("full")>>,
      <<Fence("bad_json")>>,
      <<Fence("list")>>,
      <<Fence("intent_str")>>,
      <<Label("Outcome", "Success")>>,
      <<Label("Intent Summary", "agent summary"), Label("Outcome", "Failure"),
        Label("Outcome Explanation", "two calls were slow"),
        BulletPair("add cache", "slow calls"),
        FactorSection(<<"load">>)>> }

\* (role, name) of a message of the chat history
Speakers ==
    { [role |-> "assistant", name |-> "explanation_generator_agent"],
      [role |-> "user", name |-> "explanation_generator_agent"],
      [role |-> "assistant", name |-> "log_analysis_agent"] }

Messages == {[role |-> sp.role, name |-> sp.name, content |-> c] :
                sp \in Speakers, c \in Contents}

SeqsUpTo(S, n) == UNION {[1..k -> S] : k \in 0..n}

RECURSIVE SelectKind(_, _)
SelectKind(content, k) ==
    IF content = <<>> THEN <<>>
    ELSE (IF Head(content).kind = k THEN <<Head(content)>> ELSE <<>>)
         \o SelectKind(Tail(content), k)

RECURSIVE SelectLabel(_, _)
SelectLabel(content, ls) ==
    IF content = <<>> THEN <<>>
    ELSE (IF Head(content).kind = "label" /\ Head(content).label \in ls
          THEN <<Head(content)>> ELSE <<>>)
         \o SelectLabel(Tail(content), ls)

RECURSIVE history_fences(_)
history_fences(history) ==
    IF history = <<>> THEN <<>>
    ELSE SelectKind(Head(history).content, "fence") \o history_fences(Tail(history))

\* result.summary of initiate_chat (summary_method last_msg): the last content.
result_summary(history) ==
    IF history = <<>> THEN <<>> ELSE history[Len(history)].content

\* re.findall(json_pattern, str(result)): the fenced blocks of the whole result, in
\* text order: str(result) prints the chat history message by message, then the
\* summary.
json_matches(history) ==
    history_fences(history) \o SelectKind(result_summary(history), "fence")

\* utils.parse_escaped_json: unicode_escape decoding, then json.loads.
parse_escaped_json(block) ==
    IF block.escapes = "malformed" THEN [raises |-> "UnicodeDecodeError"]
    ELSE IF block.json.t = "invalid" THEN [raises |-> "JSONDecodeError"]
    ELSE [raises |-> "", value |-> block.json]

Reverse(q) == [i \in 1..Len(q) |-> q[Len(q) + 1 - i]]

EmptyDict == [k \in {} |-> Invalid]

\* The match the extraction parses: json_matches[0].
parsed_match(matches) == matches[1]

\* The default explanation structure of the fallback.
default_explanation(nl, ttl, id, desc) ==
    [timestamp |-> Str("now"),
     natural_language_intent |-> Str(nl),
     structured_intent |-> Str(ttl),
     intent |-> Dct([id |-> Str(id), description |-> Str(desc)]),
     analysis |-> Dct([total_logs_analyzed |-> 0]),
     recommendations |-> Lst(<<[action |-> "Improve system monitoring",
           reason |-> "Could not determine specific recommendations from logs"]>>),
     outcome |-> Str("Unknown"),
     outcome_explanation |-> Str("Could not determine outcome from logs"),
     influencing_factors |-> Lst(<<"Log analysis incomplete">>)]

\* The message filter with the test of the name left out.
from_explanation_generator_mut(msg) == msg.role = "assistant"

\* The message filter of the fallback loop.
from_explanation_generator(msg) ==
    msg.role = "assistant" /\ msg.name = "explanation_generator_agent"

recommendation_pairs(content) ==
    LET ps == SelectKind(content, "bullet_pair")
    IN [i \in 1..Len(ps) |-> [action |-> ps[i].action, reason |-> ps[i].reason]]

\* The body of the fallback loop for one message of the explanation generator:
\* every labelled section found in the content overwrites the field.
apply_message(e, content) ==
    LET summ == SelectLabel(content, {"Intent Summary"})
        outc == SelectLabel(content, {"Outcome"})
        expl == SelectLabel(content, {"Outcome Explanation"})
        recs == recommendation_pairs(content)
        facs == SelectKind(content, "factor_section")
        e1 == IF summ # <<>>
              THEN SetItem(e, "intent",
                     Dct(SetItem(e["intent"].f, "description", Str(summ[1].value))))
              ELSE e
        e2 == IF outc # <<>> THEN SetItem(e1, "outcome", Str(outc[1].value)) ELSE e1
        e3 == IF expl # <<>> THEN SetItem(e2, "outcome_explanation", Str(expl[1].value))
              ELSE e2
        e4 == IF recs # <<>> THEN SetItem(e3, "recommendations", Lst(recs)) ELSE e3
        e5 == IF facs # <<>> /\ facs[1].bullets # <<>>
              THEN SetItem(e4, "influencing_factors", Lst(facs[1].bullets)) ELSE e4
    IN e5

\* for msg in messages: ... (the loop has no break)
RECURSIVE fallback_scan(_, _)
fallback_scan(e, messages) ==
    IF messages = <<>> THEN e
    ELSE fallback_scan(
            IF from_explanation_generator(Head(messages))
            THEN apply_message(e, Head(messages).content) ELSE e,
            Tail(messages))

fallback_explanation(history, nl, ttl, id, desc) ==
    fallback_scan(default_explanation(nl, ttl, id, desc), Reverse(history))

\* The intent object of the parsed explanation after "Add or update basic intent info".
update_intent(intent, id, desc) ==
    SetItem(SetItem(intent, "id", Str(id)), "description", Str(desc))

\* iExplain._extract_explanation_from_result
extract_explanation_from_result(history, nl, ttl, id, desc) ==
    LET matches == json_matches(history)
        parsed == IF matches # <<>> THEN parse_escaped_json(parsed_match(matches).block)
                  ELSE [raises |-> "JSONDecodeError"]
        fallback == [raises |-> "",
                     value |-> fallback_explanation(history, nl, ttl, id, desc)]
    IN  IF matches = <<>> \/ parsed.raises = "JSONDecodeError" THEN fallback
        ELSE IF parsed.raises # "" THEN [raises |-> parsed.raises]
        ELSE IF parsed.value.t # "dict" THEN [raises |-> "TypeError"]
        ELSE LET e1 == SetItem(SetItem(parsed.value.f, "natural_language_intent", Str(nl)),
                               "structured_intent", Str(ttl))
                 e2 == IF "intent" \in DOMAIN e1 THEN e1
                       ELSE SetItem(e1, "intent", Dct(EmptyDict))
             IN  IF e2["intent"].t # "dict" THEN [raises |-> "AttributeError"]
                 ELSE [raises |-> "",
                       value |-> SetItem(
                           SetItem(e2, "intent",
                                   Dct(update_intent(e2["intent"].f, id, desc))),
                           "timestamp", Str("now"))]

IntentIds == {"I1", "agent_id"}
NL_INTENT == "keep the api fast"
STRUCTURED_INTENT == "ttl"

NormIdle ==
    /\ result_history = <<>> /\ intent_id = None /\ intent_description = None
    /\ norm_pc = "Idle" /\ norm_error = "" /\ explanation = EmptyDict
    /\ output_file = EmptyDict

NormInit ==
    /\ result_history \in SeqsUpTo(Messages, MaxMsgs)
    /\ intent_id \in IntentIds
    /\ intent_description = "canonical description"
    /\ norm_pc = "ChatDone" /\ norm_error = ""
    /\ explanation = EmptyDict /\ output_file = EmptyDict

\* explanation = self._extract_explanation_from_result(result, ...)
ExtractExplanation ==
    /\ UNCHANGED <<wf_vars, cfg_vars, an_vars, rd_vars, sess_vars, ix_vars, rerun_vars>>
    /\ norm_pc = "ChatDone"
    /\ LET r == extract_explanation_from_result(result_history, NL_INTENT,
                    STRUCTURED_INTENT, intent_id, intent_description)
       IN  IF r.raises # ""
           THEN /\ norm_pc' = "Raised" /\ norm_error' = r.raises
                /\ UNCHANGED explanation
           ELSE /\ norm_pc' = "Extracted" /\ explanation' = r.value
                /\ UNCHANGED norm_error
    /\ UNCHANGED <<result_history, intent_id, intent_description, output_file>>

\* explanation['session_metadata'] = ...; explanation['agent_conversation'] = ...
AddSessionMetadata ==
    /\ UNCHANGED <<wf_vars, cfg_vars, an_vars, rd_vars, sess_vars, ix_vars, rerun_vars>>
    /\ norm_pc = "Extracted"
    /\ norm_pc' = "Assembled"
    /\ explanation' = SetItem(SetItem(explanation, "session_metadata", Str("session")),
                              "agent_conversation", Lst(result_history))
    /\ UNCHANGED <<result_history, intent_id, intent_description, norm_error, output_file>>

\* self._save_explanation_to_file(explanation)
SaveExplanation ==
    /\ UNCHANGED <<wf_vars, cfg_vars, an_vars, rd_vars, sess_vars, ix_vars, rerun_vars>>
    /\ norm_pc = "Assembled"
    /\ norm_pc' = "Saved"
    /\ output_file' = explanation
    /\ UNCHANGED <<result_history, intent_id, intent_description, norm_error, explanation>>

NormalizerSteps == ExtractExplanation \/ AddSessionMetadata \/ SaveExplanation

\* ------------------------------------------------------------------------
\* mains.py : the heuristic log analyzer
\* ------------------------------------------------------------------------
\* Non-negative rationals <<numerator, denominator>>, kept in lowest terms.
RECURSIVE GCD(_, _)
GCD(a, b) == IF b = 0 THEN a ELSE GCD(b, a % b)

Rat(n, d) == LET g == GCD(n, d) IN IF g = 0 THEN <<0, 1>> ELSE <<n \div g, d \div g>>
RatInt(n) == <<n, 1>>
RatLeq(p, q) == p[1] * q[2] <= q[1] * p[2]
RatLess(p, q) == p[1] * q[2] < q[1] * p[2]

\* (avg * (count - 1) + value) / count
running_mean(avg, count, value) ==
    Rat(avg[1] * (count - 1) + value * avg[2], avg[2] * count)

\* round(x, 2), ties to even
round2(q) ==
    LET a == q[1] * 100
        fl == a \div q[2]
        rem == a % q[2]
        h == IF 2 * rem > q[2] \/ (2 * rem = q[2] /\ fl % 2 = 1) THEN fl + 1 ELSE fl
    IN Rat(h, 100)

\* Log lines.  An API line carries the markers of the servers/detail call and a
\* trailing "time:" field; a VM line carries "Instance spawned in ... seconds".
\* field = -1 stands for a field that float() rejects.  API values are in ms
\* (float(field) * 1000), VM values in seconds.
ApiLine(ms) == [marker |-> "api", field |-> ms]
VmLine(sec) == [marker |-> "vm", field |-> sec]
OtherLine == [marker |-> "none", field |-> 0]

ApiValues == {200, 250, 300}
VmValues == {20, 30, 40}
ApiLines == {ApiLine(v) : v \in ApiValues}

\* latency = float(latency_part) * 1000 is a product of doubles: for some decimal
\* texts it lies above the decimal value, "2.007" gives 2007.0000000000002.  These
\* are the fields of the model with that excess; round(x, 2) removes it again.
RoundsAbove == {2007}
SlowApiLines == {ApiLine(v) : v \in RoundsAbove}
Values == ApiValues \cup VmValues \cup RoundsAbove
AllLines == ApiLines \cup {ApiLine(-1)} \cup {VmLine(v) : v \in VmValues \cup {-1}}
            \cup {OtherLine}

\* analyze_intent: threshold and unit of the intent (0 / ms when no Condition
\* with a threshold was recognised).
IntentInfos ==
    { [threshold |-> 250, threshold_unit |-> "ms"],
      [threshold |-> 30, threshold_unit |-> "s"],
      [threshold |-> 2007, threshold_unit |-> "ms"],
      [threshold |-> 0, threshold_unit |-> "ms"] }

InitialLogResults ==
    [total_entries |-> 0, api_calls |-> 0, avg_latency |-> RatInt(0),
     max_latency |-> RatInt(0), calls_over_threshold |-> 0, vm_startups |-> 0,
     avg_startup_time |-> RatInt(0)]

\* "Check if over threshold": latency > threshold, latency the product of doubles.
over_threshold(info, field) ==
    /\ info.threshold > 0
    /\ \/ field > info.threshold
       \/ field = info.threshold /\ field \in RoundsAbove

\* The body of "for line in log_lines" for an API line.
scan_api_line(r, info, line) ==
    LET r1 == [r EXCEPT !.api_calls = @ + 1]
    IN  IF line.field < 0 THEN r1
        ELSE [r1 EXCEPT
                !.avg_latency = IF r1.api_calls = 1 THEN RatInt(line.field)
                                ELSE running_mean(r.avg_latency, r1.api_calls, line.field),
                !.max_latency = IF RatLess(r.max_latency, RatInt(line.field))
                                THEN RatInt(line.field) ELSE @,
                !.calls_over_threshold = IF over_threshold(info, line.field)
                                         THEN @ + 1 ELSE @]

\* The body of "for line in log_lines" for a VM line.
scan_vm_line(r, line) ==
    LET r1 == [r EXCEPT !.vm_startups = @ + 1]
    IN  IF line.field < 0 THEN r1
        ELSE [r1 EXCEPT
                !.avg_startup_time = IF r1.vm_startups = 1 THEN RatInt(line.field)
                    ELSE running_mean(r.avg_startup_time, r1.vm_startups, line.field)]

scan_line(r, info, line) ==
    LET r1 == [r EXCEPT !.total_entries = @ + 1]
    IN  IF line.marker = "api" THEN scan_api_line(r1, info, line)
        ELSE IF line.marker = "vm" THEN scan_vm_line(r1, line)
        ELSE r1

\* "Round averages"
round_results(r) ==
    [r EXCEPT !.avg_latency = round2(@), !.max_latency = round2(@),
              !.avg_startup_time = round2(@)]

\* tolerances of determine_outcome, in percent
ApiTolerancePercent == 20
VmTolerancePercent == 110

\* determine_outcome with the API tolerance test written <= instead of <.
determine_outcome_mut(info, r) ==
    IF info.threshold_unit = "ms"
    THEN IF r.calls_over_threshold = 0 THEN "Success"
         ELSE IF r.calls_over_threshold * 100 <= ApiTolerancePercent * r.api_calls
              THEN "Partial Success"
              ELSE "Failure"
    ELSE IF info.threshold_unit = "s"
    THEN IF RatLeq(r.avg_startup_time, RatInt(info.threshold)) THEN "Success"
         ELSE IF RatLeq(r.avg_startup_time, Rat(info.threshold * VmTolerancePercent, 100))
              THEN "Partial Success"
              ELSE "Failure"
    ELSE "Unknown"

\* MinimalExplainer.determine_outcome
determine_outcome(info, r) ==
    IF info.threshold_unit = "ms"
    THEN IF r.calls_over_threshold = 0 THEN "Success"
         ELSE IF r.calls_over_threshold * 100 < ApiTolerancePercent * r.api_calls
              THEN "Partial Success"
              ELSE "Failure"
    ELSE IF info.threshold_unit = "s"
    THEN IF RatLeq(r.avg_startup_time, RatInt(info.threshold)) THEN "Success"
         ELSE IF RatLeq(r.avg_startup_time, Rat(info.threshold * VmTolerancePercent, 100))
              THEN "Partial Success"
              ELSE "Failure"
    ELSE "Unknown"

NoEvidence == [m \in {"api", "vm"} |-> [v \in Values |-> 0]]

AnIdle ==
    /\ intent_info = None /\ scan = None /\ an_pc = "Idle" /\ files_left = 0 /\ files_read = 0
    /\ lines_read = 0 /\ log_results = InitialLogResults /\ evidence = NoEvidence
    /\ outcome = None

AnInit ==
    /\ intent_info \in IntentInfos
    /\ scan \in {[lines |-> AllLines, budget |-> MaxLines],
                  [lines |-> ApiLines, budget |-> MaxApiLines],
                  [lines |-> SlowApiLines, budget |-> MaxLines]}
    /\ files_left \in 0..MaxFiles
    /\ an_pc = "NextFile" /\ files_read = 0 /\ lines_read = 0
    /\ log_results = InitialLogResults /\ evidence = NoEvidence /\ outcome = None

\* "if not log_path.exists(): ... continue"
SkipMissingFile ==
    /\ UNCHANGED <<wf_vars, cfg_vars, norm_vars, rd_vars, sess_vars, ix_vars, rerun_vars>>
    /\ an_pc = "NextFile" /\ files_left > 0
    /\ files_left' = files_left - 1
    /\ UNCHANGED <<intent_info, scan, an_pc, files_read, lines_read, log_results, evidence,
                   outcome>>

\* "with open(log_path) as f: log_lines = f.readlines()"
OpenLogFile ==
    /\ UNCHANGED <<wf_vars, cfg_vars, norm_vars, rd_vars, sess_vars, ix_vars, rerun_vars>>
    /\ an_pc = "NextFile" /\ files_left > 0
    /\ an_pc' = "InFile"
    /\ files_left' = files_left - 1
    /\ files_read' = files_read + 1
    /\ UNCHANGED <<intent_info, scan, lines_read, log_results, evidence, outcome>>

\* "with open(log_path, 'r')" or readlines raises (a directory, no permission,
\* bytes that are no UTF-8): nothing catches it, analyze_logs is left.
OpenLogFileRaises ==
    /\ UNCHANGED <<wf_vars, cfg_vars, norm_vars, rd_vars, sess_vars, ix_vars, rerun_vars>>
    /\ an_pc = "NextFile" /\ files_left > 0
    /\ an_pc' = "Raised"
    /\ files_left' = files_left - 1
    /\ UNCHANGED <<intent_info, scan, files_read, lines_read, log_results, evidence, outcome>>

\* One iteration of "for line in log_lines".
ScanLine ==
    /\ UNCHANGED <<wf_vars, cfg_vars, norm_vars, rd_vars, sess_vars, ix_vars, rerun_vars>>
    /\ an_pc = "InFile" /\ lines_read < scan.budget
    /\ \E line \in scan.lines :
         /\ log_results' = scan_line(log_results, intent_info, line)
         /\ evidence' = IF line.marker \in {"api", "vm"} /\ line.field >= 0
                        THEN [evidence EXCEPT ![line.marker][line.field] = @ + 1]
                        ELSE evidence
    /\ lines_read' = lines_read + 1
    /\ UNCHANGED <<intent_info, scan, an_pc, files_left, files_read, outcome>>

EndOfFile ==
    /\ UNCHANGED <<wf_vars, cfg_vars, norm_vars, rd_vars, sess_vars, ix_vars, rerun_vars>>
    /\ an_pc = "InFile"
    /\ an_pc' = "NextFile"
    /\ UNCHANGED <<intent_info, scan, files_left, files_read, lines_read, log_results,
                   evidence, outcome>>

\* analyze_logs returns: the averages are rounded.
FinishAnalysis ==
    /\ UNCHANGED <<wf_vars, cfg_vars, norm_vars, rd_vars, sess_vars, ix_vars, rerun_vars>>
    /\ an_pc = "NextFile" /\ files_left = 0
    /\ an_pc' = "Analyzed"
    /\ log_results' = round_results(log_results)
    /\ UNCHANGED <<intent_info, scan, files_left, files_read, lines_read, evidence, outcome>>

\* outcome = self.determine_outcome(intent_info, log_results)
DetermineOutcome ==
    /\ UNCHANGED <<wf_vars, cfg_vars, norm_vars, rd_vars, sess_vars, ix_vars, rerun_vars>>
    /\ an_pc = "Analyzed"
    /\ an_pc' = "Done"
    /\ outcome' = determine_outcome(intent_info, log_results)
    /\ UNCHANGED <<intent_info, scan, files_left, files_read, lines_read, log_results,
                   evidence>>

AnalyzerSteps ==
    \/ SkipMissingFile \/ OpenLogFile \/ OpenLogFileRaises \/ ScanLine \/ EndOfFile
    \/ FinishAnalysis \/ DetermineOutcome

\* ------------------------------------------------------------------------
\* log_processing/log_reader.py : read_logs_for_analysis
\* ------------------------------------------------------------------------
\* What the file system answers for a path.  A file with bytes that are no UTF-8
\* is readable: open(..., errors='replace') never raises UnicodeDecodeError.
FileKinds == {"missing", "directory", "permission_denied", "os_error", "readable"}

Paths == {[dir |-> "a", base |-> "x.log"], [dir |-> "b", base |-> "x.log"]}

\* os.path.basename
basename(path) == path.base

Files ==
    [path : Paths, kind : FileKinds \ {"readable"}, lines : {0}]
    \cup [path : Paths, kind : {"readable"}, lines : 0..MaxReaderLines]

Min(a, b) == IF a <= b THEN a ELSE b

RdNoResult == [returned |-> FALSE]

RdIdle ==
    /\ rd_log_files = <<>> /\ rd_max_lines = 0 /\ rd_pc = "Idle" /\ rd_index = 0
    /\ rd_content = <<>> /\ rd_metadata = [total_files |-> 0] /\ rd_warnings = <<>>
    /\ rd_result = RdNoResult /\ rd_summary = <<>>

RdInit ==
    /\ rd_log_files \in SeqsUpTo(Files, MaxReaderFiles)
    /\ rd_max_lines \in 1..MaxLinesPerFile
    /\ rd_pc = "Called" /\ rd_index = 0
    /\ rd_content = <<>> /\ rd_metadata = [total_files |-> 0] /\ rd_warnings = <<>>
    /\ rd_result = RdNoResult /\ rd_summary = <<>>

\* "if not log_files: return {...}"
ReadNoFiles ==
    /\ UNCHANGED <<wf_vars, cfg_vars, norm_vars, an_vars, sess_vars, ix_vars, rerun_vars>>
    /\ rd_pc = "Called" /\ rd_log_files = <<>>
    /\ rd_pc' = "Returned"
    /\ rd_result' = [returned |-> TRUE, content |-> <<"No log files provided.">>,
                     metadata |-> [total_files |-> 0, total_lines |-> 0],
                     warnings |-> <<>>]
    /\ UNCHANGED <<rd_log_files, rd_max_lines, rd_index, rd_content, rd_metadata,
                   rd_warnings,
                   rd_summary>>

\* result_lines, metadata and warnings are initialised.
ReadStart ==
    /\ UNCHANGED <<wf_vars, cfg_vars, norm_vars, an_vars, sess_vars, ix_vars, rerun_vars>>
    /\ rd_pc = "Called" /\ rd_log_files # <<>>
    /\ rd_pc' = "Loop" /\ rd_index' = 1
    /\ rd_metadata' = [total_files |-> Len(rd_log_files), total_lines |-> 0,
                       files_processed |-> <<>>, files_truncated |-> <<>>,
                       files_with_errors |-> <<>>]
    /\ UNCHANGED <<rd_log_files, rd_max_lines, rd_content, rd_warnings, rd_result,
                   rd_summary>>

CurrentFile == rd_log_files[rd_index]

InLoop == rd_pc = "Loop" /\ rd_index <= Len(rd_log_files)

\* The four lines of the file header.
file_header(f) == <<"rule", [tag |-> "LOG FILE", name |-> basename(f.path)],
                    [tag |-> "Full path", path |-> f.path], "rule">>

\* A branch that records an error for the file and goes on with the next.
ReadError(kind, msg) ==
    /\ InLoop /\ CurrentFile.kind = kind
    /\ rd_content' = rd_content \o file_header(CurrentFile)
                     \o <<[tag |-> "ERROR", msg |-> msg, path |-> CurrentFile.path]>>
    /\ rd_warnings' = Append(rd_warnings, [msg |-> msg, path |-> CurrentFile.path])
    /\ rd_metadata' = [rd_metadata EXCEPT
                          !.files_with_errors = Append(@, basename(CurrentFile.path))]
    /\ rd_index' = rd_index + 1
    /\ UNCHANGED <<rd_log_files, rd_max_lines, rd_pc, rd_result,
                   rd_summary>>

\* "if not os.path.exists(log_file)"
ReadFileNotFound ==
    /\ UNCHANGED <<wf_vars, cfg_vars, norm_vars, an_vars, sess_vars, ix_vars, rerun_vars>>
    /\ ReadError("missing", "File not found")

\* "if not os.path.isfile(log_file)"
ReadNotAFile ==
    /\ UNCHANGED <<wf_vars, cfg_vars, norm_vars, an_vars, sess_vars, ix_vars, rerun_vars>>
    /\ ReadError("directory", "Not a file")

\* "except PermissionError"
ReadPermissionDenied ==
    /\ UNCHANGED <<wf_vars, cfg_vars, norm_vars, an_vars, sess_vars, ix_vars, rerun_vars>>
    /\ ReadError("permission_denied", "Permission denied reading")

\* "except Exception"
ReadOtherError ==
    /\ UNCHANGED <<wf_vars, cfg_vars, norm_vars, an_vars, sess_vars, ix_vars, rerun_vars>>
    /\ ReadError("os_error", "Error reading")

\* The file is read, cut to max_lines_per_file lines and appended with line numbers.
ReadFile ==
    /\ UNCHANGED <<wf_vars, cfg_vars, norm_vars, an_vars, sess_vars, ix_vars, rerun_vars>>
    /\ InLoop /\ CurrentFile.kind = "readable"
    /\ LET f == CurrentFile
           total_lines == f.lines
           kept == Min(total_lines, rd_max_lines)
           truncated == total_lines > rd_max_lines
       IN
       /\ rd_metadata' = [rd_metadata EXCEPT
              !.total_lines = @ + kept,
              !.files_truncated = IF truncated THEN Append(@, basename(f.path)) ELSE @,
              !.files_processed = Append(@, [name |-> basename(f.path), lines |-> kept,
                                             truncated |-> truncated])]
       /\ rd_warnings' = IF truncated
                         THEN Append(rd_warnings, [msg |-> "truncated", path |-> f.path])
                         ELSE rd_warnings
       /\ rd_content' = rd_content \o file_header(f)
              \o (IF truncated THEN <<"TRUNCATED", "File size">> ELSE <<"Complete file">>)
              \o [i \in 1..kept |-> [tag |-> "line", number |-> i]]
    /\ rd_index' = rd_index + 1
    /\ UNCHANGED <<rd_log_files, rd_max_lines, rd_pc, rd_result,
                   rd_summary>>

\* "return {'content': content, 'metadata': metadata, 'warnings': warnings}"
ReadReturn ==
    /\ UNCHANGED <<wf_vars, cfg_vars, norm_vars, an_vars, sess_vars, ix_vars, rerun_vars>>
    /\ rd_pc = "Loop" /\ rd_index > Len(rd_log_files)
    /\ rd_pc' = "Returned"
    /\ rd_result' = [returned |-> TRUE, content |-> rd_content, metadata |-> rd_metadata,
                     warnings |-> rd_warnings]
    /\ UNCHANGED <<rd_log_files, rd_max_lines, rd_index, rd_content, rd_metadata,
                   rd_warnings,
                   rd_summary>>

\* "for warning in warnings[:5]"
MaxShownWarnings == 5

\* The keys of metadata that get_log_summary reads.
SummaryKeys == {"total_files", "total_lines", "files_truncated", "files_with_errors"}

\* The lines of the summary after the title: the two counts, the truncated files
\* and the files with errors when there are any, the first warnings and the
\* number of the warnings left out.
get_log_summary(log_data) ==
    LET metadata == log_data.metadata
        warnings == log_data.warnings
    IN  <<[files_processed |-> metadata.total_files],
          [total_lines_read |-> metadata.total_lines]>>
        \o (IF metadata.files_truncated # <<>>
            THEN <<[truncated_files |-> metadata.files_truncated]>> ELSE <<>>)
        \o (IF metadata.files_with_errors # <<>>
            THEN <<[files_with_errors |-> metadata.files_with_errors]>> ELSE <<>>)
        \o (IF warnings # <<>>
            THEN <<[warnings |-> Len(warnings),
                    shown |-> SubSeq(warnings, 1, Min(Len(warnings), MaxShownWarnings)),
                    more |-> IF Len(warnings) > MaxShownWarnings
                             THEN Len(warnings) - MaxShownWarnings ELSE 0]>>
            ELSE <<>>)

\* get_log_summary(log_data) on the dictionary read_logs_for_analysis returned:
\* metadata[key] raises KeyError for a key the dictionary does not hold.
GetLogSummary ==
    /\ UNCHANGED <<wf_vars, cfg_vars, norm_vars, an_vars, sess_vars, ix_vars, rerun_vars>>
    /\ rd_pc = "Returned"
    /\ IF SummaryKeys \subseteq DOMAIN rd_result.metadata
       THEN /\ rd_pc' = "Summarised"
            /\ rd_summary' = get_log_summary(rd_result)
       ELSE /\ rd_pc' = "KeyError"
            /\ UNCHANGED rd_summary
    /\ UNCHANGED <<rd_log_files, rd_max_lines, rd_index, rd_content, rd_metadata,
                   rd_warnings, rd_result>>

ReaderSteps ==
    \/ ReadNoFiles \/ ReadStart \/ ReadFileNotFound \/ ReadNotAFile
    \/ ReadPermissionDenied \/ ReadOtherError \/ ReadFile \/ ReadReturn
    \/ GetLogSummary

\* ------------------------------------------------------------------------
\* Two requests served by one process: the agents are created once
\* (iExplain.__init__) and the records are written to one directory.
\* ------------------------------------------------------------------------
Requests == {1, 2}

SessIdle ==
    /\ req_pc = [r \in Requests |-> "Idle"] /\ req_log_files = [r \in Requests |-> <<>>]
    /\ coordinator_chats = <<>> /\ seen_chats = [r \in Requests |-> <<>>]
    /\ clock = 0 /\ output_dir = [t \in 0..MaxClock |-> 0]
    /\ saved_as = [r \in Requests |-> -1]

SessInit ==
    /\ req_pc = [r \in Requests |-> "Waiting"]
    /\ req_log_files \in [Requests -> LogFileLists]
    /\ coordinator_chats = <<>> /\ seen_chats = [r \in Requests |-> <<>>]
    /\ clock = 0 /\ output_dir = [t \in 0..MaxClock |-> 0]
    /\ saved_as = [r \in Requests |-> -1]

\* NestedWorkflow.execute: coordinator.register_nested_chats(...) adds the chat of
\* this request to the ones the coordinator object already holds.
SessRegisterNested ==
    /\ UNCHANGED <<wf_vars, cfg_vars, norm_vars, an_vars, rd_vars, ix_vars, rerun_vars>>
    /\ \E r \in Requests :
         /\ req_pc[r] = "Waiting"
         /\ req_pc' = [req_pc EXCEPT ![r] = "Registered"]
         /\ coordinator_chats' =
              <<[request |-> r, recipient |-> "log_analysis_agent",
                 message |-> build_log_analysis_message(req_log_files[r]),
                 max_turns |-> 2]>> \o coordinator_chats
    /\ UNCHANGED <<req_log_files, seen_chats, clock, output_dir, saved_as>>

\* coordinator.initiate_chats(...) runs with the chats registered on the coordinator.
SessRunChats ==
    /\ UNCHANGED <<wf_vars, cfg_vars, norm_vars, an_vars, rd_vars, ix_vars, rerun_vars>>
    /\ \E r \in Requests :
         /\ req_pc[r] = "Registered"
         /\ req_pc' = [req_pc EXCEPT ![r] = "ChatsDone"]
         /\ seen_chats' = [seen_chats EXCEPT ![r] = coordinator_chats]
    /\ UNCHANGED <<req_log_files, coordinator_chats, clock, output_dir, saved_as>>

\* _save_explanation_to_file: the file name is the time of day in seconds; the
\* file is opened with 'w'.
SessSave ==
    /\ UNCHANGED <<wf_vars, cfg_vars, norm_vars, an_vars, rd_vars, ix_vars, rerun_vars>>
    /\ \E r \in Requests :
         /\ req_pc[r] = "ChatsDone"
         /\ req_pc' = [req_pc EXCEPT ![r] = "Saved"]
         /\ output_dir' = [output_dir EXCEPT ![clock] = r]
         /\ saved_as' = [saved_as EXCEPT ![r] = clock]
    /\ UNCHANGED <<req_log_files, coordinator_chats, seen_chats, clock>>

\* A second passes.
SessTick ==
    /\ UNCHANGED <<wf_vars, cfg_vars, norm_vars, an_vars, rd_vars, ix_vars, rerun_vars>>
    /\ clock < MaxClock
    /\ clock' = clock + 1
    /\ UNCHANGED <<req_pc, req_log_files, coordinator_chats, seen_chats, output_dir,
                   saved_as>>

SessionSteps == SessRegisterNested \/ SessRunChats \/ SessSave \/ SessTick

\* ------------------------------------------------------------------------
\* tools/parse_tmf_intent.py : parse_tmf_intent
\* mains.py : MinimalExplainer.analyze_intent
\* ------------------------------------------------------------------------
\* A line of the document, by what the scan looks at.  kind: "blank" (nothing
\* but white space), "prefix" (starts with @prefix), "comment" (starts with #) or
\* "triples".  subject/type_name: the groups of the type declaration pattern
\* (subject "" when the pattern does not match), type_name as the parts between
\* its colons.  description: the group of the description pattern ("" when it
\* does not match).  value: the literal after rdf:value.  dot: the line ends
\* with '.'.
NoValue == [form |-> "none", digits |-> 0]
IntegerValue(n) == [form |-> "integer", digits |-> n]
DecimalValue(n) == [form |-> "decimal", digits |-> n]

Line(k, s, t, d, v, dot) ==
    [kind |-> k, subject |-> s, type_name |-> t, description |-> d, value |-> v,
     dot |-> dot]

BlankLine == Line("blank", "", <<>>, "", NoValue, FALSE)
PrefixLine == Line("prefix", "", <<>>, "", NoValue, TRUE)
CommentLine == Line("comment", "", <<>>, "", NoValue, FALSE)
DeclLine(s, t) == Line("triples", s, <<"icm", t>>, "", NoValue, FALSE)
DescLine(d, dot) == Line("triples", "", <<>>, d, NoValue, dot)
ValueLine(v) == Line("triples", "", <<>>, "", v, FALSE)
EndLine == Line("triples", "", <<>>, "", NoValue, TRUE)

ApiText == "API response time must be below threshold"
VmText == "VM startup time must be below threshold"
OtherText == "Network latency must be below threshold"
IntentText == "Improve latency"
ConditionTexts == {ApiText, VmText, OtherText}

\* 'API response time' in desc['description'], 'VM startup time' in ...
mentions(description, phrase) ==
    \/ phrase = "API response time" /\ description = ApiText
    \/ phrase = "VM startup time" /\ description = VmText

ValueLiterals == {IntegerValue(250), IntegerValue(30), DecimalValue(20)}

TtlLines ==
    {BlankLine, PrefixLine, EndLine}
    \cup {DeclLine("I1", "Intent"), DeclLine("DE1", "DeliveryExpectation"),
          DeclLine("C1", "Condition"), DeclLine("C2", "Condition")}
    \cup {DescLine(d, FALSE) : d \in ConditionTexts} \cup {DescLine(ApiText, TRUE)}
    \cup {ValueLine(v) : v \in ValueLiterals}

\* Documents written block by block, one subject a block.
ValueOf(d) ==
    IF d = ApiText THEN IntegerValue(250)
    ELSE IF d = VmText THEN IntegerValue(30)
    ELSE DecimalValue(20)
ConditionBlock(s, d, v) ==
    <<DeclLine(s, "Condition"), DescLine(d, FALSE), ValueLine(v), EndLine>>
IntentBlock ==
    <<CommentLine, DeclLine("I1", "Intent"), DescLine(IntentText, FALSE), EndLine>>
DeliveryBlock ==
    <<DeclLine("DE1", "DeliveryExpectation"), DescLine(IntentText, FALSE), EndLine>>
TtlBlocks ==
    {IntentBlock, DeliveryBlock}
    \cup {ConditionBlock(s, d, ValueOf(d)) : s \in {"C1", "C2"}, d \in ConditionTexts}

RECURSIVE Flatten(_)
Flatten(bs) == IF bs = <<>> THEN <<>> ELSE Head(bs) \o Flatten(Tail(bs))

TtlDocuments ==
    SeqsUpTo(TtlLines, MaxTtlLines)
    \cup {Flatten(bs) : bs \in SeqsUpTo(TtlBlocks, MaxTtlBlocks)}

\* "not turtle_string or turtle_string.strip() == ''"
is_empty_input(doc) == \A i \in 1..Len(doc) : doc[i].kind = "blank"

\* turtle_string.strip().split('\n'): the blank lines at both ends are gone.
RECURSIVE lstrip(_)
lstrip(doc) ==
    IF doc # <<>> /\ Head(doc).kind = "blank" THEN lstrip(Tail(doc)) ELSE doc
split_lines(doc) == Reverse(lstrip(Reverse(lstrip(doc))))

Subjects == {"I1", "DE1", "C1", "C2"}
NoTypes == [s \in Subjects |-> <<>>]

\* subject_types.get(current_subject, "Unknown"), then
\* type_parts[-1] if len(type_parts) > 1 else subject_type
simple_type(types, subject) ==
    LET type_parts == IF types[subject] = <<>> THEN <<"Unknown">> ELSE types[subject]
    IN  type_parts[Len(type_parts)]

\* scan_ttl_line without "if line.endswith('.'): current_subject = None".
scan_ttl_line_mut(cursor, types, descriptions, line) ==
    LET type_match == line.subject # ""
        cursor1 == IF type_match THEN line.subject ELSE cursor
        types1 == IF type_match THEN [types EXCEPT ![line.subject] = line.type_name]
                  ELSE types
        desc_match == line.description # ""
        descriptions1 ==
            IF desc_match /\ cursor1 # None
            THEN Append(descriptions,
                        [subject |-> cursor1, type |-> simple_type(types1, cursor1),
                         description |-> line.description])
            ELSE descriptions
    IN  [current_subject |-> cursor1, subject_types |-> types1,
         descriptions |-> descriptions1]

\* The body of "for line in lines" for a line that is not skipped: the cursor,
\* the declared types and the descriptions after the line.
scan_ttl_line(cursor, types, descriptions, line) ==
    LET type_match == line.subject # ""
        cursor1 == IF type_match THEN line.subject ELSE cursor
        types1 == IF type_match THEN [types EXCEPT ![line.subject] = line.type_name]
                  ELSE types
        desc_match == line.description # ""
        descriptions1 ==
            IF desc_match /\ cursor1 # None
            THEN Append(descriptions,
                        [subject |-> cursor1, type |-> simple_type(types1, cursor1),
                         description |-> line.description])
            ELSE descriptions
    IN  [current_subject |-> IF line.dot THEN None ELSE cursor1,
         subject_types |-> types1, descriptions |-> descriptions1]

\* "Try to find Intent or DeliveryExpectation description first": the first such
\* description as a one-element sequence, <<>> for main_desc = None.
RECURSIVE main_desc_mut(_)
main_desc_mut(descriptions) ==
    IF descriptions = <<>> THEN <<>>
    ELSE IF Head(descriptions).type \in {"Intent"}
         THEN <<Head(descriptions)>>
         ELSE main_desc_mut(Tail(descriptions))

RECURSIVE main_desc(_)
main_desc(descriptions) ==
    IF descriptions = <<>> THEN <<>>
    ELSE IF Head(descriptions).type \in {"Intent", "DeliveryExpectation"}
         THEN <<Head(descriptions)>>
         ELSE main_desc(Tail(descriptions))

\* f"{main_desc['type']}: {main_desc['description']}"
summary_of(desc) == <<desc.type, ": ", desc.description>>
NoDescriptionsFound == <<"Intent with no descriptions found">>

\* "Create a simple summary"
summary(descriptions) ==
    IF descriptions = <<>> THEN NoDescriptionsFound
    ELSE IF main_desc(descriptions) # <<>> THEN summary_of(main_desc(descriptions)[1])
    ELSE summary_of(descriptions[1])

EmptyInput == "Failed to parse intent: Empty input"

\* re.search(r'rdf:value "(\d+)"', intent_content): the first literal of the
\* document that is a run of digits between quotes, as a one-element sequence;
\* <<>> when there is none.
RECURSIVE threshold_match(_)
threshold_match(content) ==
    IF content = <<>> THEN <<>>
    ELSE IF Head(content).value.form = "integer" THEN <<Head(content).value>>
    ELSE threshold_match(Tail(content))

InitialIntentInfo(parsed) ==
    [id |-> IF "summary" \in DOMAIN parsed THEN parsed.summary ELSE <<"Unknown intent">>,
     description |-> "", threshold |-> 0, threshold_unit |-> "ms", target |-> ""]

\* One iteration of "for desc in parsed_intent.get('descriptions', [])".
analyze_description(info, content, desc) ==
    LET info1 == IF desc.type = "DeliveryExpectation"
                 THEN [info EXCEPT !.description = desc.description] ELSE info
        m == threshold_match(content)
    IN  IF desc.type # "Condition" \/ m = <<>> THEN info1
        ELSE IF mentions(desc.description, "API response time")
        THEN [info1 EXCEPT !.threshold = m[1].digits, !.threshold_unit = "ms"]
        ELSE IF mentions(desc.description, "VM startup time")
        THEN [info1 EXCEPT !.threshold = m[1].digits, !.threshold_unit = "s"]
        ELSE info1

RECURSIVE analyze_descriptions(_, _, _)
analyze_descriptions(info, content, descriptions) ==
    IF descriptions = <<>> THEN info
    ELSE analyze_descriptions(analyze_description(info, content, Head(descriptions)),
                              content, Tail(descriptions))

\* analyze_intent, from "Extract key information from the parsed intent" on
analyze_intent(content, parsed) ==
    analyze_descriptions(InitialIntentInfo(parsed), content,
                         IF "descriptions" \in DOMAIN parsed THEN parsed.descriptions
                         ELSE <<>>)

IxIdle ==
    /\ turtle_string = <<>> /\ ix_pc = "Idle" /\ line_no = 0 /\ current_subject = None
    /\ subject_types = NoTypes /\ parsed_intent = EmptyDict /\ requirement = EmptyDict

IxInit ==
    /\ turtle_string \in TtlDocuments
    /\ ix_pc = "NotStarted" /\ line_no = 0 /\ current_subject = None
    /\ subject_types = NoTypes /\ parsed_intent = EmptyDict /\ requirement = EmptyDict

\* ParseEmptyInput with the input handed back as raw_intent.
ParseEmptyInput_mut ==
    /\ UNCHANGED <<wf_vars, cfg_vars, norm_vars, an_vars, rd_vars, sess_vars, rerun_vars>>
    /\ ix_pc = "NotStarted" /\ is_empty_input(turtle_string)
    /\ parsed_intent' = [error |-> EmptyInput, raw_intent |-> turtle_string]
    /\ ix_pc' = "Parsed"
    /\ UNCHANGED <<turtle_string, line_no, current_subject, subject_types, requirement>>

\* "Check for empty input"
ParseEmptyInput ==
    /\ UNCHANGED <<wf_vars, cfg_vars, norm_vars, an_vars, rd_vars, sess_vars, rerun_vars>>
    /\ ix_pc = "NotStarted" /\ is_empty_input(turtle_string)
    /\ parsed_intent' = [error |-> EmptyInput, raw_intent |-> <<>>]
    /\ ix_pc' = "Parsed"
    /\ UNCHANGED <<turtle_string, line_no, current_subject, subject_types, requirement>>

\* "Initialize the result structure"
ParseStart ==
    /\ UNCHANGED <<wf_vars, cfg_vars, norm_vars, an_vars, rd_vars, sess_vars, rerun_vars>>
    /\ ix_pc = "NotStarted" /\ ~is_empty_input(turtle_string)
    /\ parsed_intent' = [descriptions |-> <<>>, raw_intent |-> turtle_string]
    /\ current_subject' = None /\ subject_types' = NoTypes /\ line_no' = 0
    /\ ix_pc' = "Scanning"
    /\ UNCHANGED <<turtle_string, requirement>>

NextTtlLine == split_lines(turtle_string)[line_no + 1]
Scanning == ix_pc = "Scanning" /\ line_no < Len(split_lines(turtle_string))

\* "if not line or line.startswith('@prefix') or line.startswith('#'): continue"
SkipTtlLine ==
    /\ UNCHANGED <<wf_vars, cfg_vars, norm_vars, an_vars, rd_vars, sess_vars, rerun_vars>>
    /\ Scanning /\ NextTtlLine.kind # "triples"
    /\ line_no' = line_no + 1
    /\ UNCHANGED <<turtle_string, ix_pc, current_subject, subject_types, parsed_intent,
                   requirement>>

\* One iteration of "for line in lines" on a line that is not skipped.
ScanTtlLine ==
    /\ UNCHANGED <<wf_vars, cfg_vars, norm_vars, an_vars, rd_vars, sess_vars, rerun_vars>>
    /\ Scanning /\ NextTtlLine.kind = "triples"
    /\ LET after == scan_ttl_line(current_subject, subject_types,
                                  parsed_intent.descriptions, NextTtlLine)
       IN  /\ current_subject' = after.current_subject
           /\ subject_types' = after.subject_types
           /\ parsed_intent' = [parsed_intent EXCEPT !.descriptions = after.descriptions]
    /\ line_no' = line_no + 1
    /\ UNCHANGED <<turtle_string, ix_pc, requirement>>

\* BuildSummary with a document without descriptions answered by an error.
BuildSummary_mut ==
    /\ UNCHANGED <<wf_vars, cfg_vars, norm_vars, an_vars, rd_vars, sess_vars, rerun_vars>>
    /\ ix_pc = "Scanning" /\ line_no = Len(split_lines(turtle_string))
    /\ parsed_intent' = IF parsed_intent.descriptions = <<>>
                         THEN [error |-> "Failed to parse intent: no descriptions",
                               raw_intent |-> parsed_intent.raw_intent]
                         ELSE [descriptions |-> parsed_intent.descriptions,
                               raw_intent |-> parsed_intent.raw_intent,
                               summary |-> summary(parsed_intent.descriptions)]
    /\ ix_pc' = "Parsed"
    /\ UNCHANGED <<turtle_string, line_no, current_subject, subject_types, requirement>>

\* The loop is over: the summary is added and the dictionary returned.
BuildSummary ==
    /\ UNCHANGED <<wf_vars, cfg_vars, norm_vars, an_vars, rd_vars, sess_vars, rerun_vars>>
    /\ ix_pc = "Scanning" /\ line_no = Len(split_lines(turtle_string))
    /\ parsed_intent' = [descriptions |-> parsed_intent.descriptions,
                         raw_intent |-> parsed_intent.raw_intent,
                         summary |-> summary(parsed_intent.descriptions)]
    /\ ix_pc' = "Parsed"
    /\ UNCHANGED <<turtle_string, line_no, current_subject, subject_types, requirement>>

\* analyze_intent on the parsed document
AnalyzeIntent ==
    /\ UNCHANGED <<wf_vars, cfg_vars, norm_vars, an_vars, rd_vars, sess_vars, rerun_vars>>
    /\ ix_pc = "Parsed"
    /\ requirement' = analyze_intent(turtle_string, parsed_intent)
    /\ ix_pc' = "Analyzed"
    /\ UNCHANGED <<turtle_string, line_no, current_subject, subject_types, parsed_intent>>

ExtractorSteps ==
    \/ ParseEmptyInput \/ ParseStart \/ SkipTtlLine \/ ScanTtlLine \/ BuildSummary
    \/ AnalyzeIntent

\* ------------------------------------------------------------------------
\* mains.py : analyze_logs called again on the same log files
\* ------------------------------------------------------------------------
MissingLog == [exists |-> FALSE, lines |-> <<>>]
LogOf(lines) == [exists |-> TRUE, lines |-> lines]
StoredLogs ==
    { MissingLog, LogOf(<<>>), LogOf(<<ApiLine(200)>>),
      LogOf(<<ApiLine(300), VmLine(40)>>), LogOf(<<ApiLine(-1), ApiLine(250), OtherLine>>),
      LogOf(<<VmLine(20), VmLine(-1), ApiLine(300)>>) }
LogSets == SeqsUpTo(StoredLogs, MaxStoredLogs)

RerunIdle ==
    /\ logs_dir = <<>> /\ rerun_info = None /\ rerun_pc = "Off" /\ rerun_file = 0
    /\ rerun_line = 0 /\ rerun_results = InitialLogResults /\ returned = <<>>

RerunInit ==
    /\ logs_dir \in LogSets
    /\ rerun_info \in {[threshold |-> 250, threshold_unit |-> "ms"],
                        [threshold |-> 30, threshold_unit |-> "s"]}
    /\ rerun_pc = "Idle" /\ rerun_file = 0 /\ rerun_line = 0
    /\ rerun_results = InitialLogResults /\ returned = <<>>

\* CallAnalyzeLogs with the log_results of the call before kept.
CallAnalyzeLogs_mut ==
    /\ UNCHANGED <<wf_vars, cfg_vars, norm_vars, an_vars, rd_vars, sess_vars, ix_vars>>
    /\ rerun_pc = "Idle" /\ Len(returned) < MaxCalls
    /\ rerun_pc' = "NextFile" /\ rerun_file' = 1 /\ rerun_line' = 0
    /\ UNCHANGED <<logs_dir, rerun_info, rerun_results, returned>>

\* analyze_logs is called: "Initialize results"
CallAnalyzeLogs ==
    /\ UNCHANGED <<wf_vars, cfg_vars, norm_vars, an_vars, rd_vars, sess_vars, ix_vars>>
    /\ rerun_pc = "Idle" /\ Len(returned) < MaxCalls
    /\ rerun_results' = InitialLogResults
    /\ rerun_pc' = "NextFile" /\ rerun_file' = 1 /\ rerun_line' = 0
    /\ UNCHANGED <<logs_dir, rerun_info, returned>>

\* "if not log_path.exists(): ... continue"
RerunSkipMissingFile ==
    /\ UNCHANGED <<wf_vars, cfg_vars, norm_vars, an_vars, rd_vars, sess_vars, ix_vars>>
    /\ rerun_pc = "NextFile" /\ rerun_file <= Len(logs_dir)
    /\ ~logs_dir[rerun_file].exists
    /\ rerun_file' = rerun_file + 1
    /\ UNCHANGED <<logs_dir, rerun_info, rerun_pc, rerun_line, rerun_results, returned>>

\* "with open(log_path) as f: log_lines = f.readlines()"
RerunOpenLogFile ==
    /\ UNCHANGED <<wf_vars, cfg_vars, norm_vars, an_vars, rd_vars, sess_vars, ix_vars>>
    /\ rerun_pc = "NextFile" /\ rerun_file <= Len(logs_dir)
    /\ logs_dir[rerun_file].exists
    /\ rerun_pc' = "InFile" /\ rerun_line' = 0
    /\ UNCHANGED <<logs_dir, rerun_info, rerun_file, rerun_results, returned>>

\* One iteration of "for line in log_lines".
RerunScanLine ==
    /\ UNCHANGED <<wf_vars, cfg_vars, norm_vars, an_vars, rd_vars, sess_vars, ix_vars>>
    /\ rerun_pc = "InFile" /\ rerun_line < Len(logs_dir[rerun_file].lines)
    /\ rerun_results' = scan_line(rerun_results, rerun_info,
                                  logs_dir[rerun_file].lines[rerun_line + 1])
    /\ rerun_line' = rerun_line + 1
    /\ UNCHANGED <<logs_dir, rerun_info, rerun_pc, rerun_file, returned>>

RerunEndOfFile ==
    /\ UNCHANGED <<wf_vars, cfg_vars, norm_vars, an_vars, rd_vars, sess_vars, ix_vars>>
    /\ rerun_pc = "InFile" /\ rerun_line = Len(logs_dir[rerun_file].lines)
    /\ rerun_pc' = "NextFile" /\ rerun_file' = rerun_file + 1
    /\ UNCHANGED <<logs_dir, rerun_info, rerun_line, rerun_results, returned>>

\* "Round averages", return log_results
RerunReturn ==
    /\ UNCHANGED <<wf_vars, cfg_vars, norm_vars, an_vars, rd_vars, sess_vars, ix_vars>>
    /\ rerun_pc = "NextFile" /\ rerun_file > Len(logs_dir)
    /\ rerun_results' = round_results(rerun_results)
    /\ returned' = Append(returned, round_results(rerun_results))
    /\ rerun_pc' = "Idle"
    /\ UNCHANGED <<logs_dir, rerun_info, rerun_file, rerun_line>>

RerunSteps ==
    \/ CallAnalyzeLogs \/ RerunSkipMissingFile \/ RerunOpenLogFile \/ RerunScanLine
    \/ RerunEndOfFile \/ RerunReturn

\* ------------------------------------------------------------------------
\* Specifications
\* ------------------------------------------------------------------------
vars == <<wf_vars, cfg_vars, norm_vars, an_vars, rd_vars, sess_vars, ix_vars, rerun_vars>>

WorkflowInit == WfInit /\ NormIdle /\ AnIdle /\ RdIdle /\ SessIdle /\ IxIdle /\ RerunIdle
WorkflowNext == WorkflowSteps
WorkflowSpec == WorkflowInit /\ [][WorkflowNext]_vars

NormalizerInit == WfIdle /\ NormInit /\ AnIdle /\ RdIdle /\ SessIdle /\ IxIdle /\ RerunIdle
NormalizerNext == NormalizerSteps
NormalizerSpec == NormalizerInit /\ [][NormalizerNext]_vars

AnalyzerInit == WfIdle /\ NormIdle /\ AnInit /\ RdIdle /\ SessIdle /\ IxIdle /\ RerunIdle
AnalyzerNext == AnalyzerSteps
AnalyzerSpec == AnalyzerInit /\ [][AnalyzerNext]_vars

\* The two readers of log files: each behaviour is one call of one of them.
LogReadingInit ==
    /\ WfIdle /\ NormIdle /\ SessIdle /\ IxIdle /\ RerunIdle
    /\ \/ AnInit /\ RdIdle
       \/ AnIdle /\ RdInit
LogReadingNext == AnalyzerSteps \/ ReaderSteps
LogReadingSpec == LogReadingInit /\ [][LogReadingNext]_vars

SessionInit == WfIdle /\ NormIdle /\ AnIdle /\ RdIdle /\ SessInit /\ IxIdle /\ RerunIdle
SessionNext == SessionSteps
SessionSpec == SessionInit /\ [][SessionNext]_vars

ExtractorInit == WfIdle /\ NormIdle /\ AnIdle /\ RdIdle /\ SessIdle /\ IxInit /\ RerunIdle
ExtractorNext == ExtractorSteps
ExtractorSpec == ExtractorInit /\ [][ExtractorNext]_vars

RerunSpecInit == WfIdle /\ NormIdle /\ AnIdle /\ RdIdle /\ SessIdle /\ IxIdle /\ RerunInit
RerunNext == RerunSteps
RerunSpec == RerunSpecInit /\ [][RerunNext]_vars

\* ------------------------------------------------------------------------
\* Properties of the workflows
\* ------------------------------------------------------------------------
\* The roles each strategy works with.
RolesUsed(w) ==
    IF w = "GroupchatWorkflow"
    THEN {"intent_parser_agent", "log_analysis_agent", "explanation_generator_agent"}
    ELSE {"coordinator_agent", "intent_parser_agent", "log_analysis_agent",
          "explanation_generator_agent"}

\* C1: for each of the three strategies, execute called with an agents dictionary
\* that lacks a role the strategy works with ends with the missing-role error
\* (ValueError of validate_agents), and at no moment of that call has a chat been
\* started, a nested chat been registered, a message been exchanged or a result
\* been returned.
C1_MissingRoleFailsFast ==
    (wf_pc # "Idle" /\ ~(RolesUsed(workflow) \subseteq agents)) =>
        /\ wf_pc \in {"NotStarted", "Failed"}
        /\ wf_pc = "Failed" => wf_error = "ValueError"
        /\ invocations = <<>>
        /\ nested_chats = {}
        /\ chat_messages = <<>>
        /\ chat_results = <<>>
        /\ ~wf_return.returned

\* Scenario E: Sequential without the log-analysis role has failed.
C1_SequentialWithoutLogAnalysisFailed ==
    /\ workflow = "SequentialWorkflow"
    /\ agents = AgentNames \ {"log_analysis_agent"}
    /\ wf_pc = "Failed" /\ wf_error = "ValueError"

\* The kinds of the prompts built so far: those of the chats started, of the nested
\* chats registered and of the chats waiting in the queue.
PromptsBuilt ==
    {invocations[i].message.kind : i \in 1..Len(invocations)}
    \cup {nc.message.kind : nc \in nested_chats}
    \cup {chat_queue[i].message.kind : i \in 1..Len(chat_queue)}

LogPromptKinds == {"log_analysis_prompt", "nested_log_analysis_message"}
ExplanationPromptKinds == {"explanation_prompt", "nested_explanation_prompt"}

\* A chat with the agent has returned its result.
StageReturned(agent) ==
    \E k \in 1..Len(chat_results) : chat_results[k].chat_history[2].name = agent

Invoked(agent) == \E i \in 1..Len(invocations) : invocations[i].recipient = agent

\* C12 as stated: in Sequential and in Nested a prompt of the log-analysis stage
\* exists only once the intent stage has returned, and a prompt of the explanation
\* stage only once the log-analysis stage has returned.
C12_PromptBuiltAfterPreviousStage ==
    workflow \in {"SequentialWorkflow", "NestedWorkflow"} =>
        /\ PromptsBuilt \cap LogPromptKinds # {} => StageReturned("intent_parser_agent")
        /\ PromptsBuilt \cap ExplanationPromptKinds # {}
              => StageReturned("log_analysis_agent")

\* C12 amended: in Sequential the prompt of a stage exists only once the stage
\* before it has returned.  In Nested the log-analysis message exists from the
\* registration on and the explanation prompt from the call of initiate_chats on,
\* both before any chat has returned; the explanation chat itself starts only once
\* the intent chat has returned.
C12_SequentialPromptsInOrder ==
    /\ workflow = "SequentialWorkflow" =>
          /\ PromptsBuilt \cap LogPromptKinds # {} => StageReturned("intent_parser_agent")
          /\ PromptsBuilt \cap ExplanationPromptKinds # {}
                => StageReturned("log_analysis_agent")
    /\ (workflow = "NestedWorkflow" /\ wf_pc = "NestedRegistered") =>
          ("nested_log_analysis_message" \in PromptsBuilt /\ chat_results = <<>>)
    /\ (workflow = "NestedWorkflow" /\ wf_pc = "NestedChat1") =>
          /\ {"nested_log_analysis_message", "nested_explanation_prompt"}
                \subseteq PromptsBuilt
          /\ chat_results = <<>>
          /\ ~Invoked("explanation_generator_agent")
    /\ (workflow = "NestedWorkflow" /\ Invoked("explanation_generator_agent")) =>
          StageReturned("intent_parser_agent")

\* Nested: the first chat runs, both later prompts are built already.
C12_NestedPromptsBuiltUpFront ==
    /\ workflow = "NestedWorkflow" /\ wf_pc = "NestedChat1"
    /\ "nested_explanation_prompt" \in PromptsBuilt
    /\ "nested_log_analysis_message" \in PromptsBuilt
    /\ chat_results = <<>>

Range(q) == {q[i] : i \in 1..Len(q)}

\* C13: in Nested, whenever the explanation generator is invoked, a chat with the
\* log-analysis agent of at most 2 turns was started before and has returned, and
\* its summary is part of the context the explanation generator is given.
C13_NestedSubConversationBeforeExplanation ==
    workflow = "NestedWorkflow" =>
        \A i \in 1..Len(invocations) :
            invocations[i].recipient = "explanation_generator_agent" =>
                /\ \E j \in 1..(i - 1) :
                      /\ invocations[j].recipient = "log_analysis_agent"
                      /\ invocations[j].max_turns <= 2
                /\ \E k \in 1..Len(chat_results) :
                      /\ chat_results[k].chat_history[2].name = "log_analysis_agent"
                      /\ chat_results[k].summary \in Range(invocations[i].carryover)

\* C14: in Sequential, the log-analysis prompt holds the summary of the intent
\* chat and every log file path, the explanation prompt holds the summary of the
\* intent chat and the summary of the log-analysis chat, each as it was returned;
\* the intent prompt holds the intent it was given.
C14_SummariesCarriedVerbatim ==
    workflow = "SequentialWorkflow" =>
        \A i \in 1..Len(invocations) :
            LET m == invocations[i].message IN
            /\ m.kind = "intent_prompt" =>
                  m.structured_intent = intent_data.structured_intent
            /\ m.kind = "log_analysis_prompt" =>
                  /\ Len(chat_results) >= 1
                  /\ m.intent_summary = chat_results[1].summary
                  /\ \A k \in 1..Len(log_files) : log_files[k] \in Range(m.log_files)
            /\ m.kind = "explanation_prompt" =>
                  /\ Len(chat_results) >= 2
                  /\ m.intent_summary = chat_results[1].summary
                  /\ m.log_summary = chat_results[2].summary

\* Sequential, stage 3 entered with two log files and two different summaries.
C14_ExplanationPromptBuilt ==
    /\ workflow = "SequentialWorkflow" /\ wf_pc = "SeqStage3"
    /\ Len(log_files) = 2
    /\ chat_results[1].summary # chat_results[2].summary
    /\ LastInvocation.message.log_summary = chat_results[2].summary

Roles == {"intent_parser_agent", "log_analysis_agent", "explanation_generator_agent"}

\* C15: execute never completes without a role having been invoked: when it has
\* returned, at least one message of the run is the answer of a role.
C15_CompletedNeedsRoleInvocation ==
    wf_pc = "Completed" =>
        \E i \in 1..Len(chat_messages) : chat_messages[i].name \in Roles

\* C16: the only exception that leaves execute is the missing-role error; a failing
\* call of an agent does not end the run.
C16_OnlyMissingRoleAborts ==
    wf_pc = "Failed" => wf_error = "ValueError"

\* C17: every strategy returns one result object that holds the output of the last
\* stage, and as transcript all messages of the run in order.
C17_ResultAndTranscriptReturned ==
    wf_pc = "Completed" =>
        /\ wf_return.result.type = "ChatResult"
        /\ wf_return.result.value.summary = chat_messages[Len(chat_messages)].content
        /\ wf_return.conversation_log = chat_messages

\* C18: a group chat never holds more messages than the round cap; once the cap
\* is reached the next step is the return, never a failure; what is returned is
\* the conversation so far, with its last message as the result's summary.
C18_RoundCapEndsRun ==
    /\ [](workflow = "GroupchatWorkflow" =>
            /\ Len(chat_messages) <= max_rounds
            /\ wf_pc = "Completed" =>
                  /\ wf_return.conversation_log = chat_messages
                  /\ wf_return.result.type = "ChatResult"
                  /\ wf_return.result.value.chat_history = chat_messages
                  /\ wf_return.result.value.summary =
                        chat_messages[Len(chat_messages)].content)
    /\ [][(/\ workflow = "GroupchatWorkflow" /\ wf_pc = "GroupchatRunning"
           /\ Len(chat_messages) = max_rounds) => wf_pc' = "Completed"]_vars

\* A group chat that ran up to a cap of two or more rounds has returned.
C18_CapReachedAndReturned ==
    /\ workflow = "GroupchatWorkflow" /\ wf_pc = "Completed"
    /\ max_rounds >= 2 /\ Len(chat_messages) = max_rounds
    /\ wf_return.conversation_log = chat_messages

\* ------------------------------------------------------------------------
\* Properties of the extraction of the explanation record
\* ------------------------------------------------------------------------
Returned == norm_pc \in {"Extracted", "Assembled", "Saved"}

Fences == history_fences(result_history)

\* No fenced block of the result holds valid JSON.
NoBlockParses == \A i \in 1..Len(Fences) : Fences[i].block.json.t = "invalid"

\* C2: the record written to the output file holds every key of the configured
\* field schema, whatever the chat history was.
C2_PersistedRecordComplete ==
    norm_pc = "Saved" => EXPLANATION_CONFIG \subseteq DOMAIN output_file

\* C3: the extraction never lets an exception out: whatever the chat history holds,
\* a record is returned.
C3_NormalizationNeverRaises ==
    norm_pc # "Raised" /\ norm_error = ""

\* C4: when the result holds two or more fenced blocks, the first and the last of
\* them different and the last a JSON object with an outcome, the returned record
\* has the outcome of the last block.
C4_LastBlockParsed ==
    LET n == Len(Fences) IN
    (/\ Returned /\ n >= 2 /\ Fences[1] # Fences[n]
     /\ Fences[n].block.json.t = "dict"
     /\ "outcome" \in DOMAIN Fences[n].block.json.f)
    => explanation["outcome"] = Fences[n].block.json.f["outcome"]

\* C5: in every returned record intent.id and intent.description are the id and
\* the description of the intent file.
C5_CanonicalIntentInEveryRecord ==
    Returned =>
        /\ explanation["intent"].f["id"] = Str(intent_id)
        /\ explanation["intent"].f["description"] = Str(intent_description)

\* The messages of the explanation generator that carry a labelled outcome.
OutcomeMessages ==
    {i \in 1..Len(result_history) :
        /\ result_history[i].role = "assistant"
        /\ result_history[i].name = "explanation_generator_agent"
        /\ SelectLabel(result_history[i].content, {"Outcome"}) # <<>>}

Latest(S) == CHOOSE i \in S : \A j \in S : j <= i

\* C6: when no block parses and messages of the explanation generator carry a
\* labelled outcome, the record's outcome is the one of the latest such message.
C6_LatestMessageWins ==
    (Returned /\ NoBlockParses /\ OutcomeMessages # {}) =>
        explanation["outcome"] =
            Str(SelectLabel(result_history[Latest(OutcomeMessages)].content,
                            {"Outcome"})[1].value)

\* No message of the explanation generator carries a labelled section or a
\* recommendation bullet.
NoLabelledMessage ==
    \A i \in 1..Len(result_history) :
        result_history[i].name = "explanation_generator_agent" =>
            \A j \in 1..Len(result_history[i].content) :
                result_history[i].content[j].kind \in {"text", "fence"}

\* C7: when no fenced block parses and no message of the explanation generator has
\* labelled sections, the extraction returns the placeholder record: outcome
\* Unknown, the one factor "Log analysis incomplete", one generic recommendation.
C7_PlaceholderWhenNothingExtracted ==
    (norm_pc \notin {"Idle", "ChatDone"} /\ NoBlockParses /\ NoLabelledMessage) =>
        /\ Returned
        /\ explanation["outcome"] = Str("Unknown")
        /\ explanation["influencing_factors"] = Lst(<<"Log analysis incomplete">>)
        /\ Len(explanation["recommendations"].l) = 1
        /\ explanation["recommendations"].l[1].action = "Improve system monitoring"

\* An unparsable block and a labelled message of another agent were met, and the
\* placeholder was returned.
C7_PlaceholderReturned ==
    /\ norm_pc = "Extracted" /\ NoBlockParses /\ NoLabelledMessage
    /\ Len(Fences) >= 1
    /\ \E i \in 1..Len(result_history) :
          /\ result_history[i].role = "assistant"
          /\ SelectLabel(result_history[i].content, {"Outcome"}) # <<>>
    /\ explanation["outcome"] = Str("Unknown")

\* ------------------------------------------------------------------------
\* Properties of the heuristic log analyzer
\* ------------------------------------------------------------------------
EvidenceCount(m) ==
    LET RECURSIVE Sum(_)
        Sum(S) == IF S = {} THEN 0
                  ELSE LET v == CHOOSE x \in S : TRUE IN evidence[m][v] + Sum(S \ {v})
    IN Sum(Values)

\* The metric of the intent: API latency (ms) or VM startup time (s).
IntentMetric == IF intent_info.threshold_unit = "ms" THEN "api" ELSE "vm"

\* C8: the outcome is Unknown exactly when no value was extracted from any line,
\* for any metric.
C8_UnknownIffNoEvidence ==
    an_pc = "Done" =>
        (outcome = "Unknown" <=> EvidenceCount("api") + EvidenceCount("vm") = 0)

\* C9: for an intent with a threshold, the outcome is Success exactly when values
\* were extracted for the intent's metric and none of them exceeds the threshold.
C9_SuccessIffNoViolation ==
    (an_pc = "Done" /\ intent_info.threshold > 0) =>
        (outcome = "Success" <=>
            /\ EvidenceCount(IntentMetric) > 0
            /\ \A v \in Values :
                  evidence[IntentMetric][v] > 0 => v <= intent_info.threshold)

\* Scenario A: threshold 250 ms, 10 API lines, 8 at 200 ms and 2 at 300 ms.
ScenarioA ==
    /\ an_pc = "Done"
    /\ intent_info = [threshold |-> 250, threshold_unit |-> "ms"]
    /\ log_results.api_calls = 10
    /\ evidence["api"][200] = 8 /\ evidence["api"][250] = 0 /\ evidence["api"][300] = 2

\* C10 as stated: scenario A counts 2 violations and is Partial Success.
C10_ScenarioAPartialSuccess ==
    ScenarioA => (log_results.calls_over_threshold = 2 /\ outcome = "Partial Success")

\* C10 amended: scenario A counts 2 violations and is Failure; for an API latency
\* intent the outcome is Partial Success exactly when there are violations and
\* their share of the API lines is strictly below 20%.
C10_AtToleranceIsFailure ==
    /\ ScenarioA => (log_results.calls_over_threshold = 2 /\ outcome = "Failure")
    /\ (an_pc = "Done" /\ intent_info.threshold_unit = "ms") =>
          (outcome = "Partial Success" <=>
              /\ log_results.calls_over_threshold > 0
              /\ log_results.calls_over_threshold * 5 < log_results.api_calls)

C10_ScenarioAReached == ScenarioA /\ outcome = "Failure"

\* Values were extracted for the intent's metric, and each equals the threshold.
AllAtThreshold ==
    /\ intent_info.threshold > 0
    /\ EvidenceCount(IntentMetric) > 0
    /\ \A v \in Values : evidence[IntentMetric][v] > 0 => v = intent_info.threshold

\* C11: for both metrics, a run whose every extracted value equals the threshold
\* counts no violation and is classified Success.
C11_AtThresholdIsCompliant ==
    (an_pc = "Done" /\ AllAtThreshold) =>
        (log_results.calls_over_threshold = 0 /\ outcome = "Success")

\* ------------------------------------------------------------------------
\* Properties of requests served by the same process
\* ------------------------------------------------------------------------
\* C19: two requests of one process do not touch each other's state: the nested
\* chats a request runs with are the ones it registered itself, and the file a
\* request has written holds its own record.
C19_RequestsIndependent ==
    \A r \in Requests :
        /\ \A i \in 1..Len(seen_chats[r]) : seen_chats[r][i].request = r
        /\ req_pc[r] = "Saved" => output_dir[saved_as[r]] = r

\* ------------------------------------------------------------------------
\* Properties of the reading of log files
\* ------------------------------------------------------------------------
\* read_logs_for_analysis has returned for a list with files in it.
ReaderReturned == rd_pc = "Returned" /\ rd_log_files # <<>>

\* Each file of the list is in exactly one of files_processed and
\* files_with_errors, the failing ones in the latter, each with a warning.
FilesAccounted ==
    LET md == rd_result.metadata
        failing == SelectSeq(rd_log_files, LAMBDA f : f.kind # "readable")
        readable == SelectSeq(rd_log_files, LAMBDA f : f.kind = "readable")
    IN  /\ md.total_files = Len(rd_log_files)
        /\ Len(md.files_processed) + Len(md.files_with_errors) = Len(rd_log_files)
        /\ md.files_with_errors = [i \in 1..Len(failing) |-> basename(failing[i].path)]
        /\ [i \in 1..Len(readable) |-> md.files_processed[i].name]
             = [i \in 1..Len(readable) |-> basename(readable[i].path)]
        /\ \A i \in 1..Len(failing) :
              \E w \in 1..Len(rd_result.warnings) :
                  rd_result.warnings[w].path = failing[i].path

\* C20: reading a list of log files never aborts on a bad file: the reader accounts
\* for each file once, as processed or as failing with a warning, total_files is
\* the length of the list, and the analyzer's loop over the log files ends without
\* an exception.
C20_BadFileNeverAborts ==
    /\ ReaderReturned => FilesAccounted
    /\ rd_pc = "Returned" => rd_result.metadata.total_files = Len(rd_log_files)
    /\ an_pc # "Raised"

\* The configured turn budget of the stage that talks to a role.
ConfiguredTurns(recipient) ==
    IF recipient = "intent_parser_agent" THEN sequential_config.intent_parsing_turns
    ELSE IF recipient = "log_analysis_agent" THEN sequential_config.log_analysis_turns
    ELSE sequential_config.explanation_turns

\* C25: in Sequential every stage is invoked with the turn budget the
\* configuration gives for it, and a finished stage has run no more turns than
\* that budget (a turn is a message of the coordinator and its answer).
C25_StagesUseConfiguredTurns ==
    workflow = "SequentialWorkflow" =>
        \A i \in 1..Len(invocations) :
            /\ invocations[i].max_turns = ConfiguredTurns(invocations[i].recipient)
            /\ i <= Len(chat_results) =>
                  Len(chat_results[i].chat_history)
                  <= 2 * ConfiguredTurns(invocations[i].recipient)

\* C26: every call of analyze_logs on the same log files with the same intent_info
\* returns the same dictionary (total_entries, api_calls, avg_latency, max_latency,
\* calls_over_threshold, vm_startups, avg_startup_time) as the call before.
C26_RerunReturnsSameAggregates ==
    \A i, j \in 1..Len(returned) : returned[i] = returned[j]

C26_AnalyzedTwice ==
    /\ Len(returned) = 2 /\ rerun_pc = "Idle"
    /\ returned[2].api_calls > 0 /\ returned[2].total_entries > returned[2].api_calls
    /\ returned[2].calls_over_threshold > 0

\* Sum and largest of the values extracted so far for a metric.
EvidenceSum(m) ==
    LET RECURSIVE Sum(_)
        Sum(S) == IF S = {} THEN 0
                  ELSE LET v == CHOOSE x \in S : TRUE
                       IN  v * evidence[m][v] + Sum(S \ {v})
    IN Sum(Values)
EvidenceMax(m) ==
    LET seen == {v \in Values : evidence[m][v] > 0}
    IN  IF seen = {} THEN 0 ELSE CHOOSE v \in seen : \A w \in seen : w <= v

\* C28: while the lines are scanned, the match count of each metric is the number
\* of lines a value was extracted from, the running average is the sum of these
\* values divided by the count, and the running maximum of the API latency is
\* the largest of them; a line with the markers and a field that is no number
\* changes none of them.
C28_AggregatesMatchEvidence ==
    an_pc \in {"NextFile", "InFile"} =>
        /\ log_results.api_calls = EvidenceCount("api")
        /\ log_results.vm_startups = EvidenceCount("vm")
        /\ EvidenceCount("api") > 0 =>
              log_results.avg_latency = Rat(EvidenceSum("api"), EvidenceCount("api"))
        /\ EvidenceCount("vm") > 0 =>
              log_results.avg_startup_time = Rat(EvidenceSum("vm"), EvidenceCount("vm"))
        /\ log_results.max_latency = RatInt(EvidenceMax("api"))

\* C30: every dictionary read_logs_for_analysis returns, the one for an empty
\* list of log files included, holds the metadata keys get_log_summary reads, and
\* get_log_summary returns on it.
C30_SummaryOfEveryResult ==
    rd_pc \in {"Returned", "Summarised", "KeyError"} =>
        /\ {"total_files", "total_lines", "files_truncated", "files_with_errors"}
              \subseteq DOMAIN rd_result.metadata
        /\ rd_pc # "KeyError"

\* ------------------------------------------------------------------------
\* Properties of the intent extraction
\* ------------------------------------------------------------------------
ParseReturned == ix_pc \in {"Parsed", "Analyzed"}
WhitespaceOnly == \A i \in 1..Len(turtle_string) : turtle_string[i] = BlankLine

\* C21: for an empty document or one of white space only, parse_tmf_intent returns
\* the dictionary with error 'Failed to parse intent: Empty input' and an empty
\* raw_intent, which has no descriptions list; the scan is never entered.
C21_EmptyInputReturnsError ==
    WhitespaceOnly =>
        /\ ix_pc \in {"NotStarted", "Parsed", "Analyzed"}
        /\ ParseReturned =>
              /\ parsed_intent = [error |-> "Failed to parse intent: Empty input",
                                  raw_intent |-> <<>>]
              /\ "descriptions" \notin DOMAIN parsed_intent

C21_WhitespaceDocumentParsed ==
    /\ ix_pc = "Parsed" /\ turtle_string # <<>> /\ WhitespaceOnly
    /\ "error" \in DOMAIN parsed_intent

NoDescriptionLine == \A i \in 1..Len(turtle_string) : turtle_string[i].description = ""

\* C22: for a document that is not empty, parse_tmf_intent returns a dictionary
\* with a descriptions list and no error; when no line holds a description the
\* list is empty and the summary is 'Intent with no descriptions found'; from an
\* empty list analyze_intent returns the intent_info without a threshold.
C22_NoDescriptionsIsNotFatal ==
    (~WhitespaceOnly /\ ParseReturned) =>
        /\ DOMAIN parsed_intent = {"descriptions", "raw_intent", "summary"}
        /\ parsed_intent.raw_intent = turtle_string
        /\ NoDescriptionLine =>
              /\ parsed_intent.descriptions = <<>>
              /\ parsed_intent.summary = <<"Intent with no descriptions found">>
        /\ (ix_pc = "Analyzed" /\ parsed_intent.descriptions = <<>>) =>
              /\ requirement.threshold = 0 /\ requirement.description = ""
              /\ requirement.id = parsed_intent.summary

C22_InvalidDocumentAnalyzed ==
    /\ ix_pc = "Analyzed" /\ NoDescriptionLine
    /\ \E i \in 1..Len(turtle_string) : turtle_string[i].kind = "triples"
    /\ parsed_intent.descriptions = <<>> /\ requirement.threshold = 0

\* Line j belongs to the block that the declaration in line i opens: no line from
\* i up to j ends the statement or declares another subject.  (Blank, @prefix and
\* comment lines are no lines of a statement.)
InBlock(i, j) ==
    /\ i <= j /\ j <= Len(turtle_string)
    /\ \A k \in i..(j - 1) : ~(turtle_string[k].kind = "triples" /\ turtle_string[k].dot)
    /\ \A k \in (i + 1)..j : turtle_string[k].subject = ""

\* A Condition written out: declared in line i, its description in line d and its
\* value literal in line v of the same block.
ConditionBlockAt(i, d, v) ==
    /\ turtle_string[i].kind = "triples"
    /\ turtle_string[i].type_name = <<"icm", "Condition">>
    /\ InBlock(i, d) /\ turtle_string[d].kind = "triples"
    /\ turtle_string[d].description # ""
    /\ InBlock(i, v) /\ turtle_string[v].value.form # "none"

LineNumbers == 1..Len(turtle_string)

\* C23: when the document holds a Condition with a description and a value
\* literal, the intent_info analyze_intent returns has a threshold, whatever the
\* words of the description and whether the literal is an integer or a decimal.
C23_ConditionGivesThreshold ==
    (ix_pc = "Analyzed" /\ \E i, d, v \in LineNumbers : ConditionBlockAt(i, d, v)) =>
        requirement.threshold > 0

\* The unit the words of a Condition imply.
ImpliedUnit(description) ==
    IF mentions(description, "API response time") THEN "ms"
    ELSE IF mentions(description, "VM startup time") THEN "s"
    ELSE "none"

\* C29: a threshold that analyze_intent returns is, with its unit, the one of a
\* single Condition of the document: the value literal of that Condition's block
\* and the unit its description implies, never the value of one Condition with
\* the unit of another.
C29_ThresholdFromOwnBlock ==
    (ix_pc = "Analyzed" /\ requirement.threshold > 0) =>
        \E i, d, v \in LineNumbers :
            /\ ConditionBlockAt(i, d, v)
            /\ turtle_string[v].value.digits = requirement.threshold
            /\ ImpliedUnit(turtle_string[d].description) = requirement.threshold_unit

\* The descriptions with one of the two preferred types, by position.
Preferred ==
    {i \in 1..Len(parsed_intent.descriptions) :
        parsed_intent.descriptions[i].type \in {"Intent", "DeliveryExpectation"}}

\* C24: when descriptions were extracted, the summary is "<type>: <description>"
\* of the first description of type Intent or DeliveryExpectation, of the first
\* description when there is none of these types, and it is not empty.
C24_SummaryFromPreferredDescription ==
    (ix_pc \in {"Parsed", "Analyzed"} /\ ~WhitespaceOnly
     /\ parsed_intent.descriptions # <<>>) =>
        LET ds == parsed_intent.descriptions
            chosen == IF Preferred = {} THEN 1
                      ELSE CHOOSE i \in Preferred : \A j \in Preferred : i <= j
        IN  /\ parsed_intent.summary = <<ds[chosen].type, ": ", ds[chosen].description>>
            /\ ds[chosen].type # "" /\ ds[chosen].description # ""

C24_PreferredAfterCondition ==
    /\ ix_pc = "Parsed" /\ ~WhitespaceOnly
    /\ Len(parsed_intent.descriptions) = 2
    /\ parsed_intent.descriptions[1].type = "Condition"
    /\ parsed_intent.descriptions[2].type = "DeliveryExpectation"
    /\ parsed_intent.summary[1] = "DeliveryExpectation"

\* The scan seen from the document: the lines, the statement-ending lines and the
\* declarations among the lines the scan reads (blank, @prefix and comment lines
\* are passed over).
DocLines == split_lines(turtle_string)
EndsStatement(k) == DocLines[k].kind = "triples" /\ DocLines[k].dot
Declares(k) == DocLines[k].kind = "triples" /\ DocLines[k].subject # ""

\* Line i holds the most recent type declaration at line j, and no line from i up
\* to the one before j ends a statement.
Owns(i, j) ==
    /\ i <= j /\ Declares(i)
    /\ \A k \in (i + 1)..j : ~Declares(k)
    /\ \A k \in i..(j - 1) : ~EndsStatement(k)

\* The description lines scanned so far that are met with the cursor set.
Attributed ==
    {j \in 1..line_no :
        /\ DocLines[j].kind = "triples" /\ DocLines[j].description # ""
        /\ \E i \in 1..j : Owns(i, j)}

OwnerOf(j) == CHOOSE i \in 1..j : Owns(i, j)
LocalName(type_name) == type_name[Len(type_name)]

\* The Condition declarations of the document, and whether each has exactly one
\* description in its block.
ConditionDeclarations ==
    {i \in 1..Len(DocLines) : Declares(i) /\ LocalName(DocLines[i].type_name) = "Condition"}
OneDescriptionEach ==
    \A i \in ConditionDeclarations :
        Cardinality({j \in i..Len(DocLines) :
                        Owns(i, j) /\ DocLines[j].kind = "triples"
                        /\ DocLines[j].description # ""}) = 1

\* C27: at every point of the scan the description list holds, in document order,
\* one tuple for each description line met with the cursor set, with the subject
\* of the most recent type declaration since the last statement-ending line and
\* the type declared there; a description line met with the cursor cleared adds
\* nothing; the cursor is that declaration's subject, or cleared.  After the scan
\* of a document whose k Condition blocks have one description each, the tuples
\* of type Condition are k, one for each block, in the order of the blocks.
C27_DescriptionsFollowCursor ==
    (ix_pc \in {"Scanning", "Parsed", "Analyzed"} /\ ~WhitespaceOnly) =>
        LET ds == parsed_intent.descriptions
            rank(j) == Cardinality({k \in Attributed : k <= j})
            conds == {n \in 1..Len(ds) : ds[n].type = "Condition"}
        IN  /\ Len(ds) = Cardinality(Attributed)
            /\ \A j \in Attributed :
                  ds[rank(j)] = [subject |-> DocLines[OwnerOf(j)].subject,
                                 type |-> LocalName(DocLines[OwnerOf(j)].type_name),
                                 description |-> DocLines[j].description]
            /\ ix_pc = "Scanning" =>
                  \/ current_subject = None
                       /\ ~\E i \in 1..line_no : Owns(i, line_no) /\ ~EndsStatement(line_no)
                  \/ \E i \in 1..line_no :
                       /\ Owns(i, line_no) /\ ~EndsStatement(line_no)
                       /\ current_subject = DocLines[i].subject
            /\ (ix_pc # "Scanning" /\ OneDescriptionEach) =>
                  /\ Cardinality(conds) = Cardinality(ConditionDeclarations)
                  /\ \A i \in ConditionDeclarations :
                        \E n \in conds :
                            /\ ds[n].subject = DocLines[i].subject
                            /\ Cardinality({m \in conds : m <= n})
                               = Cardinality({k \in ConditionDeclarations : k <= i})

C27_TwoConditionBlocksScanned ==
    /\ ix_pc = "Parsed" /\ ~WhitespaceOnly
    /\ Cardinality(ConditionDeclarations) = 2 /\ OneDescriptionEach
    /\ Len(parsed_intent.descriptions) = 2
    /\ parsed_intent.descriptions[1].subject = "C1"
    /\ parsed_intent.descriptions[2].subject = "C2"
    /\ parsed_intent.descriptions[2].type = "Condition"

====
